---- MODULE Spec2Model ----
(***************************************************************************)
(* Model of the polling client of the Ultimaker integration                *)
(* (custom_components/ultimaker/api_client.py, UltimakerLocalApiClient).   *)
(*                                                                         *)
(* JSON objects are functions from strings; JSON arrays are sequences.     *)
(* Python's None, {} and [] are all the empty function <<>>: the code only *)
(* ever tests them for truthiness.  Fractions (progress) are integers in   *)
(* thousandths, so 0.999 is 999.  datetime.now() is the integer clock now. *)
(***************************************************************************)
EXTENDS Integers, Sequences, FiniteSets, TLC

VARIABLES
    host,                  \* self._host
    data,                  \* self._data
    last_successful_data,  \* self._last_successful_data
    consecutive_errors,    \* self._consecutive_errors
    material_names_cache,  \* self._material_names_cache
    now,                   \* the wall clock read by datetime.now()
    pc,                    \* the await point the poll in flight is suspended at
    print_job_data,        \* the local print_job_data of the poll in flight
    result,                \* what the last finished call of async_update gave its caller
    failed_polls,          \* history: failed polls since the last successful one
    printer_payload,       \* history: the /printer payload as it was received
    fetch_log,             \* history: what each endpoint did in the latest poll
    probe,                 \* a direct call of one function: its arguments and its value
    token,                 \* cloud client: _token
    token_expiry,          \* cloud client: _token_expiry, an instant or NoExpiry
    cluster_id,            \* cloud client: _cluster_id
    headers,               \* cloud client: _headers
    oauth_session,         \* cloud client: whether oauth_session is set
    cluster_status,        \* cloud poll: the local cluster_status
    last_call,             \* cloud client: when the throttle last let a call through
    scan_interval,         \* seconds between two calls of the coordinator
    entry,                 \* the config entry: data[cluster_id], and how far its setup is
    passes                 \* overlapping calls: the runs of async_update in flight

vars == <<host, data, last_successful_data, consecutive_errors, material_names_cache,
          now, pc, print_job_data, result, failed_polls, printer_payload, fetch_log, probe,
          token, token_expiry, cluster_id, headers, oauth_session, cluster_status,
          last_call, scan_interval, entry, passes>>

\* what a poll of the local client never touches
not_local == <<probe, token, token_expiry, cluster_id, headers, oauth_session,
               cluster_status, last_call, scan_interval, entry, passes>>

\* what a poll of the cloud client never touches
not_cloud == <<host, last_successful_data, consecutive_errors, material_names_cache,
               print_job_data, failed_polls, printer_payload, probe, scan_interval, entry, passes>>

\* ------------------------------------------------------------------ bounds
MaxPolls == 5

\* ------------------------------------------------------- program constants
max_consecutive_errors == 3

ProgressDone == 999

CompletedStates == {"finished", "done", "complete", "success", "wait_cleanup"}

\* ------------------------------------------------------------ dict helpers
None == <<>>

Truthy(v) == DOMAIN v # {}

Has(d, k) == k \in DOMAIN d

Get(d, k, default) == IF k \in DOMAIN d THEN d[k] ELSE default

Put(d, k, v) == [x \in DOMAIN d \cup {k} |-> IF x = k THEN v ELSE d[x]]

SetDefault(d, k, v) == IF k \in DOMAIN d THEN d ELSE Put(d, k, v)

Copy(d) == [x \in DOMAIN d |-> d[x]]

Opt(k, Vs) == {None} \cup {k :> v : v \in Vs}

Both(A, B) == {a @@ b : a \in A, b \in B}

\* A JSON array body handed back by /printer: truthy, but not a mapping.
ListBody == [json_array |-> TRUE]

IsDict(v) == ~ Has(v, "json_array")

\* str.lower() on the job states the model uses
Lower(s) ==
    CASE s = "Finished" -> "finished"
      [] s = "WAIT_CLEANUP" -> "wait_cleanup"
      [] s = "Printing" -> "printing"
      [] OTHER -> s

\* ------------------------------------------------------------- _fetch_data
Return(v) == [raised |-> "", value |-> v]

Raise(e) == [raised |-> e, value |-> None]

\* FetchData without the ValueError clause of lines 584-592
FetchDataRaisesValueError(resp) ==
    CASE resp.kind = "http_error"   -> Return(None)
      [] resp.kind = "client_error" -> Raise("ClientError")
      [] resp.kind = "timeout"      -> Raise("TimeoutError")
      [] resp.kind = "invalid_json" -> Raise("ValueError")
      [] resp.kind = "other_error"  -> Return(None)
      [] OTHER                      -> Return(resp.body)

FetchData(resp) ==
    CASE resp.kind = "http_error"   -> Return(None)
      [] resp.kind = "client_error" -> Raise("ClientError")
      [] resp.kind = "timeout"      -> Raise("TimeoutError")
      [] resp.kind = "invalid_json" -> Return(None)
      [] resp.kind = "other_error"  -> Return(None)
      [] OTHER                      -> Return(resp.body)

Failures == {[kind |-> k, body |-> None] :
                k \in {"http_error", "client_error", "timeout", "invalid_json", "other_error"}}

Responses(Bodies) == Failures \cup {[kind |-> "ok", body |-> b] : b \in Bodies \cup {None}}

\* what is remembered of one call of _fetch_data
NoFetch == [kind |-> "none", raised |-> "", empty |-> FALSE]

NoFetches == [printer |-> NoFetch, print_job |-> NoFetch,
              material_1 |-> NoFetch, material_2 |-> NoFetch]

Logged(resp) ==
    [kind |-> resp.kind, raised |-> FetchData(resp).raised,
     empty |-> ~ Truthy(FetchData(resp).value)]

\* ------------------------------------------------------- status correction
\* StatusCorrection with lines 213 and 216 not asking for the raw status
StatusCorrectionAnyStatus(d, job) ==
    IF ~ Has(d, "status")
    THEN Put(d, "status", "idle")
    ELSE IF Truthy(job)
         THEN LET job_state == Lower(Get(job, "state", ""))
                  job_progress == Get(job, "progress", 0)
              IN  IF job_state \in CompletedStates
                  THEN Put(d, "status", "idle")
                  ELSE IF job_progress >= ProgressDone
                       THEN Put(d, "status", "idle")
                       ELSE d
         ELSE IF d.status = "printing" THEN Put(d, "status", "idle") ELSE d

StatusCorrection(d, job) ==
    IF ~ Has(d, "status")
    THEN Put(d, "status", "idle")
    ELSE IF Truthy(job)
         THEN LET job_state == Lower(Get(job, "state", ""))
                  job_progress == Get(job, "progress", 0)
              IN  IF d.status = "printing" /\ job_state \in CompletedStates
                  THEN Put(d, "status", "idle")
                  ELSE IF d.status = "printing" /\ job_progress >= ProgressDone
                       THEN Put(d, "status", "idle")
                       ELSE d
         ELSE IF d.status = "printing" THEN Put(d, "status", "idle") ELSE d

\* --------------------------------------------------------- print-job merge
MergePrintJob(d, job) ==
    IF Truthy(job)
    THEN [k \in DOMAIN d \cup DOMAIN job |-> IF k \in DOMAIN job THEN job[k] ELSE d[k]]
    ELSE SetDefault(SetDefault(SetDefault(SetDefault(d,
             "state", "idle"), "progress", 0), "time_total", 0), "time_elapsed", 0)

\* ------------------------------------------------------------ default fill
FillTemperature(t) == SetDefault(SetDefault(t, "current", 0), "target", 0)

\* FillBed with line 277 assigning the default type unconditionally
FillBedOverwritesType(d) ==
    LET d1   == SetDefault(d, "bed", None)
        bed1 == SetDefault(d1.bed, "temperature", None)
        bed2 == Put(bed1, "temperature", FillTemperature(bed1.temperature))
        bed3 == Put(bed2, "type", "unknown")
    IN  Put(d1, "bed", bed3)

FillBed(d) ==
    LET d1   == SetDefault(d, "bed", None)
        bed1 == SetDefault(d1.bed, "temperature", None)
        bed2 == Put(bed1, "temperature", FillTemperature(bed1.temperature))
        bed3 == SetDefault(bed2, "type", "unknown")
    IN  Put(d1, "bed", bed3)

\* FillHotend without lines 317-323
FillHotendNoStatistics(h) ==
    LET h1 == SetDefault(h, "temperature", None)
        h2 == Put(h1, "temperature", FillTemperature(h1.temperature))
    IN  SetDefault(h2, "id", "unknown")

FillHotend(h) ==
    LET h1 == SetDefault(h, "temperature", None)
        h2 == Put(h1, "temperature", FillTemperature(h1.temperature))
        h3 == SetDefault(h2, "id", "unknown")
        h4 == SetDefault(h3, "statistics", None)
    IN  Put(h4, "statistics", SetDefault(h4.statistics, "material_extruded", 0))

FillActiveMaterial(m) == SetDefault(SetDefault(m, "length_remaining", 0), "GUID", "unknown")

FillExtruder(e) ==
    LET e1 == SetDefault(e, "hotend", None)
        e2 == Put(e1, "hotend", FillHotend(e1.hotend))
        e3 == SetDefault(e2, "active_material", None)
    IN  Put(e3, "active_material", FillActiveMaterial(e3.active_material))

\* FillHeads without lines 337-382
FillHeadsFirstOnly(d) ==
    LET heads == IF ~ Has(d, "heads") \/ ~ Truthy(d.heads) THEN <<None>> ELSE d.heads
        head  == heads[1]
        exts  == IF ~ Has(head, "extruders") \/ ~ Truthy(head.extruders)
                 THEN <<None>> ELSE head.extruders
        exts1 == [exts EXCEPT ![1] = FillExtruder(@)]
    IN  Put(d, "heads", [heads EXCEPT ![1] = Put(head, "extruders", exts1)])

FillHeads(d) ==
    LET heads == IF ~ Has(d, "heads") \/ ~ Truthy(d.heads) THEN <<None>> ELSE d.heads
        head  == heads[1]
        exts  == IF ~ Has(head, "extruders") \/ ~ Truthy(head.extruders)
                 THEN <<None>> ELSE head.extruders
        exts1 == [exts EXCEPT ![1] = FillExtruder(@)]
        exts2 == IF Len(exts1) > 1 THEN [exts1 EXCEPT ![2] = FillExtruder(@)] ELSE exts1
    IN  Put(d, "heads", [heads EXCEPT ![1] = Put(head, "extruders", exts2)])

\* DefaultFill that gives a single-extruder head an empty second extruder
\* once the fills have run
DefaultFillAppendsSecond(d) ==
    LET f    == FillHeads(FillBed(d))
        head == f.heads[1]
        exts == IF Len(head.extruders) < 2 THEN Append(head.extruders, None)
                ELSE head.extruders
    IN  Put(f, "heads", [f.heads EXCEPT ![1] = Put(head, "extruders", exts)])

DefaultFill(d) == FillHeads(FillBed(d))

\* lines 200-382: what the poll makes of the two payloads before it looks up
\* material names
BuildSnapshot(printer_data, job) ==
    DefaultFill(MergePrintJob(StatusCorrection(printer_data, job), job))

\* ------------------------------------------------------- get_material_name
Strip(s) ==
    CASE s = " PLA " -> "PLA"
      [] s = " "     -> ""
      [] OTHER       -> s

Join(brand, material) ==
    CASE brand = "Generic" /\ material = "PLA" -> "Generic PLA"
      [] OTHER -> material

\* A material document is described by what the two extraction strategies
\* find in it: json (the body was parsed as JSON, so it is not a str),
\* well_formed (ET.fromstring accepts it), has_name / name (the first name
\* element, or the first <name>...</name> match, and its text), and the text
\* of metadata/properties/brand and .../material.
Doc(json, well_formed, has_name, name, brand, material) ==
    [json |-> json, well_formed |-> well_formed, has_name |-> has_name,
     name |-> name, brand |-> brand, material |-> material]

\* ExtractName with line 116 asking for the brand only
ExtractNameBrandOnly(doc) ==
    IF doc.well_formed
    THEN IF doc.has_name /\ doc.name # ""
         THEN [found |-> TRUE, name |-> Strip(doc.name)]
         ELSE IF doc.brand # ""
              THEN [found |-> TRUE, name |-> Join(Strip(doc.brand), Strip(doc.material))]
              ELSE [found |-> FALSE, name |-> ""]
    ELSE IF doc.has_name
         THEN [found |-> TRUE, name |-> Strip(doc.name)]
         ELSE [found |-> FALSE, name |-> ""]

\* lines 96-143: the name the document yields; found = FALSE when neither
\* strategy extracts one
ExtractName(doc) ==
    IF doc.well_formed
    THEN IF doc.has_name /\ doc.name # ""
         THEN [found |-> TRUE, name |-> Strip(doc.name)]
         ELSE IF doc.brand # "" /\ doc.material # ""
              THEN [found |-> TRUE, name |-> Join(Strip(doc.brand), Strip(doc.material))]
              ELSE [found |-> FALSE, name |-> ""]
    ELSE IF doc.has_name
         THEN [found |-> TRUE, name |-> Strip(doc.name)]
         ELSE [found |-> FALSE, name |-> ""]

\* GetMaterialName without the cache lookup of lines 81-84
GetMaterialNameRefetches(material_guid, cache, resp) ==
    IF material_guid = "" \/ material_guid = "unknown"
    THEN [name |-> "unknown", cache |-> cache, fetched |-> FALSE]
    ELSE LET r == FetchData(resp)
         IN  IF r.raised # "" \/ ~ Truthy(r.value) \/ r.value.json
             THEN [name |-> material_guid, cache |-> cache, fetched |-> TRUE]
             ELSE LET x == ExtractName(r.value)
                  IN  IF x.found
                      THEN [name |-> x.name, cache |-> Put(cache, material_guid, x.name),
                            fetched |-> TRUE]
                      ELSE [name |-> material_guid, cache |-> cache, fetched |-> TRUE]

\* lines 67-147; resp is the answer the materials endpoint gives if it is asked
GetMaterialName(material_guid, cache, resp) ==
    IF material_guid = "" \/ material_guid = "unknown"
    THEN [name |-> "unknown", cache |-> cache, fetched |-> FALSE]
    ELSE IF material_guid \in DOMAIN cache
    THEN [name |-> cache[material_guid], cache |-> cache, fetched |-> FALSE]
    ELSE LET r == FetchData(resp)
         IN  IF r.raised # "" \/ ~ Truthy(r.value) \/ r.value.json
             THEN [name |-> material_guid, cache |-> cache, fetched |-> TRUE]
             ELSE LET x == ExtractName(r.value)
                  IN  IF x.found
                      THEN [name |-> x.name, cache |-> Put(cache, material_guid, x.name),
                            fetched |-> TRUE]
                      ELSE [name |-> material_guid, cache |-> cache, fetched |-> TRUE]

\* ------------------------------------- material names inside async_update
Extruders(d) == Get(Get(d, "heads", <<None>>)[1], "extruders", <<>>)

MaterialGuid(d, k) ==
    LET active_material == Get(Extruders(d)[k], "active_material", None)
    IN  Get(active_material, "GUID", Get(active_material, "guid", "unknown"))

WantsMaterialName(d, k) ==
    /\ Len(Extruders(d)) >= k
    /\ MaterialGuid(d, k) # ""
    /\ MaterialGuid(d, k) # "unknown"

SetMaterialName(d, k, name) ==
    [d EXCEPT !["heads"][1]["extruders"][k]["active_material"] = Put(@, "material_name", name)]

\* lines 409-422: the second extruder, up to an await or the end of the try block
SecondExtruder(d, cache) ==
    IF WantsMaterialName(d, 2)
    THEN IF MaterialGuid(d, 2) \in DOMAIN cache
         THEN [pc |-> "done", data |-> SetMaterialName(d, 2, cache[MaterialGuid(d, 2)])]
         ELSE [pc |-> "fetch_material_2", data |-> d]
    ELSE [pc |-> "done", data |-> d]

\* lines 394-407: the first extruder, then the second
FirstExtruder(d, cache) ==
    IF WantsMaterialName(d, 1)
    THEN IF MaterialGuid(d, 1) \in DOMAIN cache
         THEN SecondExtruder(SetMaterialName(d, 1, cache[MaterialGuid(d, 1)]), cache)
         ELSE [pc |-> "fetch_material_1", data |-> d]
    ELSE SecondExtruder(d, cache)

\* --------------------------------------------------------- failure branches
\* UseCachedData without the comparison with the maximum
UseCachedDataUnbounded(last, errors) == Truthy(last)

UseCachedData(last, errors) == Truthy(last) /\ errors < max_consecutive_errors

\* CachedCopy without line 174
CachedCopyUnflagged(last) == Copy(last)

CachedCopy(last) == Put(Copy(last), "using_cached_data", TRUE)

\* ExceptBranch with the sentinel of the last clause in every clause
ExceptBranchOneSentinel(last, errors, sentinel, t) ==
    IF UseCachedData(last, errors + 1)
    THEN [data |-> Put(CachedCopy(last), "sampleTime", t), errors |-> errors + 1,
          raised |-> FALSE]
    ELSE [data |-> [status |-> "error"], errors |-> errors + 1, raised |-> TRUE]

\* lines 431-504: one except clause of async_update
ExceptBranch(last, errors, sentinel, t) ==
    IF UseCachedData(last, errors + 1)
    THEN [data |-> Put(CachedCopy(last), "sampleTime", t), errors |-> errors + 1,
          raised |-> FALSE]
    ELSE [data |-> [status |-> sentinel], errors |-> errors + 1, raised |-> TRUE]

\* EmptyPrinterData with line 169 comparing the count before the increment
EmptyPrinterDataServesAtMaximum(last, errors, t) ==
    IF UseCachedData(last, errors)
    THEN [data |-> CachedCopy(last), errors |-> errors + 1, raised |-> FALSE]
    ELSE ExceptBranch(last, errors + 1, "error", t)

\* lines 163-180: /printer gave nothing.  The UpdateFailed of line 180 is
\* raised inside the try block, so the clause of line 479 handles it.
EmptyPrinterData(last, errors, t) ==
    IF UseCachedData(last, errors + 1)
    THEN [data |-> CachedCopy(last), errors |-> errors + 1, raised |-> FALSE]
    ELSE ExceptBranch(last, errors + 1, "error", t)

\* ------------------------------------------------- what the printer can say
FullExtruder(guid) ==
    [hotend |-> [id |-> "AA 0.4", temperature |-> [current |-> 210, target |-> 215],
                 statistics |-> [material_extruded |-> 120]],
     active_material |-> [GUID |-> guid, length_remaining |-> 900]]

PrinterBodies ==
    { [status |-> "printing"],
      [status |-> "idle", bed |-> [temperature |-> [current |-> 60]]],
      [heads |-> <<[extruders |-> <<[active_material |-> [GUID |-> "g1"]]>>]>>],
      [status |-> "printing", bed |-> [type |-> "glass"],
       heads |-> <<[extruders |-> <<FullExtruder("g1"), FullExtruder("g1")>>]>>],
      ListBody }

PrintJobBodies ==
    { [state |-> "printing", progress |-> 450, time_total |-> 3600, time_elapsed |-> 1800],
      [state |-> "Finished", progress |-> 1000, time_total |-> 3600, time_elapsed |-> 3600] }

MaterialDocs ==
    { Doc(FALSE, TRUE, TRUE, " PLA ", "", ""),
      Doc(FALSE, TRUE, FALSE, "", "Generic", "PLA"),
      Doc(FALSE, TRUE, FALSE, "", "", ""),
      Doc(FALSE, FALSE, TRUE, "PLA", "", ""),
      Doc(FALSE, FALSE, FALSE, "", "", ""),
      Doc(TRUE, FALSE, FALSE, "", "", "") }

Hosts == {"", "10.0.0.2"}

\* --------------------------------------------------------------------- Init
\* the config entry: its data[cluster_id] ('' when it has none), whether
\* async_setup_entry is still to run, has returned True or has returned
\* False, and the id async_setup_entry picked from the cluster list
Entry(id, state, selected) == [cluster_id |-> id, state |-> state, selected |-> selected]

NoProbe == [fn |-> "none"]

NoExpiry == -1

NeverCalled == -1

DEFAULT_SCAN_INTERVAL_LOCAL == 10

\* the entry is a local one: there is no cloud client
NoCloudClient ==
    /\ token = ""
    /\ token_expiry = NoExpiry
    /\ cluster_id = ""
    /\ headers = None
    /\ oauth_session = FALSE
    /\ cluster_status = None
    /\ last_call = NeverCalled
    /\ scan_interval = DEFAULT_SCAN_INTERVAL_LOCAL
    /\ entry = Entry("", "loaded", "")
    /\ passes = <<>>

NoResult == [kind |-> "none", cause |-> "none", value |-> None, time |-> 0, after |-> 0]

Init ==
    /\ host \in Hosts
    /\ data = None
    /\ last_successful_data = None
    /\ consecutive_errors = 0
    /\ material_names_cache = None
    /\ now = 0
    /\ pc = "idle"
    /\ print_job_data = None
    /\ result = NoResult
    /\ failed_polls = 0
    /\ printer_payload = None
    /\ fetch_log = NoFetches
    /\ probe = NoProbe
    /\ NoCloudClient

\* ------------------------------------------------------------ poll endings
\* Complete with line 512 ahead of line 508
CompleteStoresUnstamped(d) ==
    /\ data' = Put(d, "sampleTime", now)
    /\ last_successful_data' = Copy(d)
    /\ consecutive_errors' = IF consecutive_errors > 0 THEN 0 ELSE consecutive_errors
    /\ result' = [kind |-> "returned", cause |-> "ok", value |-> data', time |-> now,
                  after |-> failed_polls]
    /\ pc' = "idle"
    /\ failed_polls' = 0

\* lines 506-522
Complete(d) ==
    /\ data' = Put(d, "sampleTime", now)
    /\ last_successful_data' = Copy(data')
    /\ consecutive_errors' = IF consecutive_errors > 0 THEN 0 ELSE consecutive_errors
    /\ result' = [kind |-> "returned", cause |-> "ok", value |-> data', time |-> now,
                  after |-> failed_polls]
    /\ pc' = "idle"
    /\ failed_polls' = 0

\* a failure branch ends the poll: it returns the cached copy or raises UpdateFailed
Fail(branch, cause) ==
    /\ data' = branch.data
    /\ consecutive_errors' = branch.errors
    /\ result' = [kind  |-> IF branch.raised THEN "raised" ELSE "returned",
                  cause |-> cause,
                  value |-> IF branch.raised THEN None ELSE branch.data,
                  time  |-> now, after |-> failed_polls]
    /\ pc' = "idle"
    /\ failed_polls' = failed_polls + 1
    /\ UNCHANGED <<last_successful_data, material_names_cache>>

\* Continue with a poll that ends without lines 514-516: the snapshot is
\* stored and returned, the counter is left as the failures made it
ContinueWithoutReset(step, cache) ==
    /\ material_names_cache' = cache
    /\ IF step.pc = "done"
       THEN /\ data' = Put(step.data, "sampleTime", now)
            /\ last_successful_data' = Copy(data')
            /\ result' = [kind |-> "returned", cause |-> "ok", value |-> data',
                          time |-> now, after |-> failed_polls]
            /\ pc' = "idle"
            /\ failed_polls' = 0
            /\ UNCHANGED consecutive_errors
       ELSE /\ data' = step.data
            /\ pc' = step.pc
            /\ UNCHANGED <<last_successful_data, consecutive_errors, result, failed_polls>>

\* the poll goes on after the last await before the material names
Continue(step, cache) ==
    /\ material_names_cache' = cache
    /\ IF step.pc = "done"
       THEN Complete(step.data)
       ELSE /\ data' = step.data
            /\ pc' = step.pc
            /\ UNCHANGED <<last_successful_data, consecutive_errors, result, failed_polls>>

\* ------------------------------------------------------------------ actions
\* lines 149-161: the scheduler calls async_update at a time when the throttle
\* of line 149 lets the call through; the call awaits /printer
StartPoll(canStart) ==
    /\ pc = "idle"
    /\ canStart
    /\ host # ""
    /\ now' = now + 1
    /\ pc' = "fetch_printer"
    /\ print_job_data' = None
    /\ printer_payload' = None
    /\ fetch_log' = NoFetches
    /\ UNCHANGED <<host, data, last_successful_data, consecutive_errors,
                   material_names_cache, result, failed_polls>>
    /\ UNCHANGED not_local

\* lines 154-156
PollWithoutHost(canStart) ==
    /\ pc = "idle"
    /\ canStart
    /\ host = ""
    /\ now' = now + 1
    /\ result' = [kind |-> "raised", cause |-> "no_host", value |-> None, time |-> now',
                  after |-> failed_polls]
    /\ failed_polls' = failed_polls + 1
    /\ fetch_log' = NoFetches
    /\ UNCHANGED <<host, data, last_successful_data, consecutive_errors,
                   material_names_cache, pc, print_job_data, printer_payload>>
    /\ UNCHANGED not_local

\* lines 161, 431-454
PrinterConnectionError(Bodies) ==
    /\ pc = "fetch_printer"
    /\ \E resp \in Responses(Bodies) :
          /\ FetchData(resp).raised = "ClientError"
          /\ fetch_log' = [fetch_log EXCEPT !.printer = Logged(resp)]
          /\ Fail(ExceptBranch(last_successful_data, consecutive_errors, "not connected", now),
                  "client_error")
    /\ UNCHANGED <<host, now, print_job_data, printer_payload>>
    /\ UNCHANGED not_local

\* lines 161, 455-478
PrinterTimeout(Bodies) ==
    /\ pc = "fetch_printer"
    /\ \E resp \in Responses(Bodies) :
          /\ FetchData(resp).raised = "TimeoutError"
          /\ fetch_log' = [fetch_log EXCEPT !.printer = Logged(resp)]
          /\ Fail(ExceptBranch(last_successful_data, consecutive_errors, "timeout", now),
                  "timeout")
    /\ UNCHANGED <<host, now, print_job_data, printer_payload>>
    /\ UNCHANGED not_local

\* lines 161-180, 479-504
PrinterEmpty(Bodies) ==
    /\ pc = "fetch_printer"
    /\ \E resp \in Responses(Bodies) :
          /\ FetchData(resp).raised = ""
          /\ ~ Truthy(FetchData(resp).value)
          /\ fetch_log' = [fetch_log EXCEPT !.printer = Logged(resp)]
          /\ Fail(EmptyPrinterData(last_successful_data, consecutive_errors, now), "empty")
    /\ UNCHANGED <<host, now, print_job_data, printer_payload>>
    /\ UNCHANGED not_local

\* PrinterFetched with the cache written as soon as /printer has answered
PrinterFetchedStoresEarly(Bodies) ==
    /\ pc = "fetch_printer"
    /\ \E resp \in Responses(Bodies) :
          /\ FetchData(resp).raised = ""
          /\ Truthy(FetchData(resp).value)
          /\ data' = FetchData(resp).value
          /\ printer_payload' = FetchData(resp).value
          /\ fetch_log' = [fetch_log EXCEPT !.printer = Logged(resp)]
    /\ last_successful_data' = Copy(data')
    /\ print_job_data' = None
    /\ pc' = "fetch_print_job"
    /\ UNCHANGED <<host, consecutive_errors, material_names_cache, now, result, failed_polls>>
    /\ UNCHANGED not_local

\* lines 161, 182-192: the payload is stored and /print_job is awaited
PrinterFetched(Bodies) ==
    /\ pc = "fetch_printer"
    /\ \E resp \in Responses(Bodies) :
          /\ FetchData(resp).raised = ""
          /\ Truthy(FetchData(resp).value)
          /\ data' = FetchData(resp).value
          /\ printer_payload' = FetchData(resp).value
          /\ fetch_log' = [fetch_log EXCEPT !.printer = Logged(resp)]
    /\ print_job_data' = None
    /\ pc' = "fetch_print_job"
    /\ UNCHANGED <<host, last_successful_data, consecutive_errors,
                   material_names_cache, now, result, failed_polls>>
    /\ UNCHANGED not_local

\* TryPrintJob without the try block of lines 190-198
TryPrintJobUnguarded(resp) == FetchData(resp)

\* lines 190-198: whatever /print_job does, the poll goes on
TryPrintJob(resp) == IF FetchData(resp).raised # "" THEN Return(None) ELSE FetchData(resp)

PrintJobData(resp) == TryPrintJob(resp).value

\* lines 192-407: the snapshot is built, up to the first material fetch
PrintJobFetched(Jobs) ==
    /\ pc = "fetch_print_job"
    /\ IsDict(data)
    /\ \E resp \in Responses(Jobs) :
          /\ print_job_data' = PrintJobData(resp)
          /\ fetch_log' = [fetch_log EXCEPT !.print_job = Logged(resp)]
          /\ CASE TryPrintJob(resp).raised = "ClientError" ->
                    Fail(ExceptBranch(last_successful_data, consecutive_errors,
                                      "not connected", now), "client_error")
               [] TryPrintJob(resp).raised = "TimeoutError" ->
                    Fail(ExceptBranch(last_successful_data, consecutive_errors,
                                      "timeout", now), "timeout")
               [] OTHER ->
                    Continue(FirstExtruder(BuildSnapshot(data, print_job_data'),
                                           material_names_cache),
                             material_names_cache)
    /\ UNCHANGED <<host, now, printer_payload>>
    /\ UNCHANGED not_local

\* lines 192-203, 479-504: a payload that is not a mapping makes the status
\* assignment raise TypeError
PrintJobFetchedBadPayload(Jobs) ==
    /\ pc = "fetch_print_job"
    /\ ~ IsDict(data)
    /\ \E resp \in Responses(Jobs) :
          /\ print_job_data' = PrintJobData(resp)
          /\ fetch_log' = [fetch_log EXCEPT !.print_job = Logged(resp)]
    /\ Fail(ExceptBranch(last_successful_data, consecutive_errors, "error", now), "unknown")
    /\ UNCHANGED <<host, now, printer_payload>>
    /\ UNCHANGED not_local

\* lines 403-422: the material endpoint answers for the first extruder
MaterialFetched1 ==
    /\ pc = "fetch_material_1"
    /\ \E resp \in Responses(MaterialDocs) :
          LET m == GetMaterialName(MaterialGuid(data, 1), material_names_cache, resp)
          IN  /\ fetch_log' = [fetch_log EXCEPT !.material_1 = Logged(resp)]
              /\ Continue(SecondExtruder(SetMaterialName(data, 1, m.name), m.cache), m.cache)
    /\ UNCHANGED <<host, now, print_job_data, printer_payload>>
    /\ UNCHANGED not_local

\* lines 418-430: the material endpoint answers for the second extruder
MaterialFetched2 ==
    /\ pc = "fetch_material_2"
    /\ \E resp \in Responses(MaterialDocs) :
          LET m == GetMaterialName(MaterialGuid(data, 2), material_names_cache, resp)
          IN  /\ fetch_log' = [fetch_log EXCEPT !.material_2 = Logged(resp)]
              /\ Continue([pc |-> "done", data |-> SetMaterialName(data, 2, m.name)], m.cache)
    /\ UNCHANGED <<host, now, print_job_data, printer_payload>>
    /\ UNCHANGED not_local

\* the host cancels the task at the await it is suspended at
Abandon ==
    /\ pc # "idle"
    /\ pc' = "idle"
    /\ result' = [kind |-> "cancelled", cause |-> "cancelled", value |-> None, time |-> now,
                  after |-> failed_polls]
    /\ UNCHANGED <<host, data, last_successful_data, consecutive_errors,
                   material_names_cache, now, print_job_data, failed_polls, printer_payload,
                   fetch_log>>
    /\ UNCHANGED not_local

Next ==
    \/ StartPoll(now < MaxPolls)
    \/ PollWithoutHost(now < MaxPolls)
    \/ PrinterConnectionError(PrinterBodies)
    \/ PrinterTimeout(PrinterBodies)
    \/ PrinterEmpty(PrinterBodies)
    \/ PrinterFetched(PrinterBodies)
    \/ PrintJobFetched(PrintJobBodies)
    \/ PrintJobFetchedBadPayload(PrintJobBodies)
    \/ MaterialFetched1
    \/ MaterialFetched2
    \/ Abandon

Spec == Init /\ [][Next]_vars

TypeOK ==
    /\ pc \in {"idle", "fetch_printer", "fetch_print_job", "fetch_material_1", "fetch_material_2"}
    /\ consecutive_errors \in 0..(2 * MaxPolls)
    /\ now \in 0..MaxPolls
    /\ result.kind \in {"none", "returned", "raised", "cancelled"}

\* ------------------------------------------- the first poll, every payload
\* Every way /printer can omit the keys and containers the sensors read.
Temperatures == Both(Opt("current", {60}), Opt("target", {65}))

Beds == Both(Opt("temperature", Temperatures), Opt("type", {"glass"}))

Hotends ==
    Both(Opt("temperature", {None, [current |-> 210], [current |-> 210, target |-> 215]}),
         Both(Opt("id", {"AA 0.4"}),
              Opt("statistics", {None, [material_extruded |-> 120]})))

ActiveMaterials == Both(Opt("GUID", {"g1"}), Opt("length_remaining", {900}))

ExtruderShapes == Both(Opt("hotend", Hotends), Opt("active_material", ActiveMaterials))

HeadLists ==
    {<<>>, <<None>>, <<[extruders |-> <<>>]>>}
    \cup {<<[extruders |-> <<e>>]>> : e \in ExtruderShapes}
    \cup {<<[extruders |-> <<e1, e2>>]>> : e1, e2 \in {None, FullExtruder("g1")}}

AllPrinterBodies ==
    (Both(Opt("status", {"printing", "idle"}), Both(Opt("bed", Beds), Opt("heads", HeadLists)))
        \ {None}) \cup {ListBody}

AllPrintJobBodies ==
    Both(Opt("state", {"printing", "finished", "Finished"}),
         Both(Opt("progress", {450, 999}), Opt("status", {"printing"}))) \ {None}

FirstPoll == result.kind = "none" /\ now = 0

NextFirstPoll ==
    \/ StartPoll(FirstPoll)
    \/ PollWithoutHost(FirstPoll)
    \/ PrinterConnectionError(AllPrinterBodies)
    \/ PrinterTimeout(AllPrinterBodies)
    \/ PrinterEmpty(AllPrinterBodies)
    \/ PrinterFetched(AllPrinterBodies)
    \/ PrintJobFetched(AllPrintJobBodies)
    \/ PrintJobFetchedBadPayload(AllPrintJobBodies)
    \/ MaterialFetched1
    \/ MaterialFetched2
    \/ Abandon

SpecFirstPoll == Init /\ [][NextFirstPoll]_vars

\* ------------------------------------------ the default fill, called alone
\* The first head with up to three extruders, the second one in every shape,
\* and a list of two heads.
FillHeadLists ==
    HeadLists
    \cup {<<[extruders |-> <<e1, e2>>]>> : e1 \in {None, FullExtruder("g1")}, e2 \in ExtruderShapes}
    \cup {<<[extruders |-> <<None, None, None>>]>>, <<None, None>>,
          <<[extruders |-> <<None>>], [extruders |-> <<None, None>>]>>}

\* what lines 200-253 can hand to the fill
MergedSnapshots ==
    {Put(x, "status", "idle") : x \in Both(Opt("bed", Beds), Opt("heads", FillHeadLists))}

InitFill ==
    /\ Init
    /\ host # ""

ProbeDefaultFill(m) == [fn |-> "default_fill", input |-> m, once |-> DefaultFill(m)]

\* lines 255-382 run on a merged snapshot
ApplyDefaultFill ==
    /\ probe.fn = "none"
    /\ \E m \in MergedSnapshots : probe' = ProbeDefaultFill(m)
    /\ UNCHANGED <<host, data, last_successful_data, consecutive_errors, material_names_cache,
                   now, pc, print_job_data, result, failed_polls, printer_payload, fetch_log>>
    /\ UNCHANGED <<token, token_expiry, cluster_id, headers, oauth_session, cluster_status,
                   last_call, scan_interval, entry, passes>>

\* lines 255-382 run on their own result
ApplyDefaultFillAgain ==
    /\ probe.fn = "default_fill"
    /\ probe' = [fn |-> "default_fill_twice", input |-> probe.input, once |-> probe.once,
                 twice |-> DefaultFill(probe.once)]
    /\ UNCHANGED <<host, data, last_successful_data, consecutive_errors, material_names_cache,
                   now, pc, print_job_data, result, failed_polls, printer_payload, fetch_log>>
    /\ UNCHANGED <<token, token_expiry, cluster_id, headers, oauth_session, cluster_status,
                   last_call, scan_interval, entry, passes>>

NextFill ==
    \/ ApplyDefaultFill
    \/ ApplyDefaultFillAgain

SpecFill == InitFill /\ [][NextFill]_vars

\* -------------------------------------- get_material_name, called alone
Guids == {"", "unknown", "g1", "g2"}

\* MaterialDocs and documents with an empty name, a blank name, a brand alone
AllMaterialDocs ==
    MaterialDocs
    \cup { Doc(FALSE, TRUE, TRUE, "", "Generic", "PLA"),
           Doc(FALSE, TRUE, TRUE, " ", "", ""),
           Doc(FALSE, TRUE, FALSE, "", "Generic", ""),
           Doc(FALSE, FALSE, TRUE, "", "", "") }

ProbeGetMaterialName(material_guid, cache, resp) ==
    [fn |-> "get_material_name", material_guid |-> material_guid, resp |-> resp,
     before |-> cache,
     name |-> GetMaterialName(material_guid, cache, resp).name,
     fetched |-> GetMaterialName(material_guid, cache, resp).fetched]

\* lines 67-147: one call, from its first line to its return
CallGetMaterialName ==
    /\ pc = "idle"
    /\ \E material_guid \in Guids, resp \in Responses(AllMaterialDocs) :
          /\ probe' = ProbeGetMaterialName(material_guid, material_names_cache, resp)
          /\ material_names_cache' =
                 GetMaterialName(material_guid, material_names_cache, resp).cache
    /\ UNCHANGED <<host, data, last_successful_data, consecutive_errors,
                   now, pc, print_job_data, result, failed_polls, printer_payload, fetch_log>>
    /\ UNCHANGED <<token, token_expiry, cluster_id, headers, oauth_session, cluster_status,
                   last_call, scan_interval, entry, passes>>

NextMaterial == CallGetMaterialName

SpecMaterial == InitFill /\ [][NextMaterial]_vars

\* ------------------------------------- the status correction, called alone
RawStatuses == {"printing", "idle", "maintenance", "error"}

StatusPayloads == {[bed |-> [type |-> "glass"]]} \cup {[status |-> st] : st \in RawStatuses}

JobStates == {"printing", "Printing", "paused", "pre_print", "finished", "Finished",
              "done", "complete", "success", "wait_cleanup", "WAIT_CLEANUP"}

JobProgresses == {0, 450, 998, 999, 1000}

JobPayloads ==
    Both(Opt("state", JobStates),
         Both(Opt("progress", JobProgresses), Opt("status", {"printing", "idle"})))

ProbeStatusCorrection(d, job) ==
    [fn |-> "status_correction", printer_data |-> d, job |-> job,
     corrected |-> StatusCorrection(d, job),
     merged |-> MergePrintJob(StatusCorrection(d, job), job)]

\* lines 200-243 run on a /printer payload and on what /print_job gave
ApplyStatusCorrection ==
    /\ probe.fn = "none"
    /\ \E d \in StatusPayloads, job \in JobPayloads : probe' = ProbeStatusCorrection(d, job)
    /\ UNCHANGED <<host, data, last_successful_data, consecutive_errors, material_names_cache,
                   now, pc, print_job_data, result, failed_polls, printer_payload, fetch_log>>
    /\ UNCHANGED <<token, token_expiry, cluster_id, headers, oauth_session, cluster_status,
                   last_call, scan_interval, entry, passes>>

NextStatus == ApplyStatusCorrection

SpecStatus == InitFill /\ [][NextStatus]_vars

\* ------------------------------------------------------------- properties
FailureCauses == {"empty", "client_error", "timeout", "unknown"}

Succeeded == result.kind = "returned" /\ result.cause = "ok"

Failed == result.cause \in FailureCauses

ServedCache == result.kind = "returned" /\ Failed

\* C1: with a last-known-good snapshot present, a failed poll that is the
\* fourth or a later one in a row since the last success raises UpdateFailed
\* and hands out no cached data.
C1_HardFailureAfterThreshold ==
    (Failed /\ Truthy(last_successful_data) /\ failed_polls > max_consecutive_errors)
        => (result.kind = "raised" /\ result.value = None)

C1_Witness ==
    /\ Failed
    /\ Truthy(last_successful_data)
    /\ failed_polls > max_consecutive_errors
    /\ result.kind = "raised"

\* C2: a failed poll that finds a last-known-good snapshot and a failure count
\* under the maximum returns a snapshot, and every snapshot a failed poll
\* returns has using_cached_data = TRUE and otherwise the keys and values of
\* the last-known-good snapshot, sampleTime aside.
C2_SoftFailureServesCache ==
    /\ (Failed /\ Truthy(last_successful_data) /\ consecutive_errors < max_consecutive_errors)
          => result.kind = "returned"
    /\ ServedCache =>
          /\ DOMAIN result.value = DOMAIN last_successful_data \cup {"using_cached_data"}
          /\ result.value["using_cached_data"] = TRUE
          /\ \A k \in DOMAIN last_successful_data \ {"using_cached_data", "sampleTime"} :
                result.value[k] = last_successful_data[k]

C2_Witness ==
    /\ ServedCache
    /\ result.cause = "timeout"
    /\ failed_polls = 2
    /\ Has(result.value, "heads")

\* C3: every snapshot async_update returns, fresh or cached, carries the
\* sampleTime of the poll that returned it.
C3_SampleTimeIsCompletionTime ==
    result.kind = "returned" =>
        (Has(result.value, "sampleTime") /\ result.value["sampleTime"] = result.time)

\* C4: a poll whose /printer payload is empty and that cannot serve the cache
\* raises UpdateFailed and leaves the latest data with status 'not connected'.
C4_EmptyPayloadNotConnected ==
    (pc = "idle" /\ result.cause = "empty"
        /\ (~ Truthy(last_successful_data) \/ consecutive_errors >= max_consecutive_errors))
        => (result.kind = "raised" /\ data["status"] = "not connected")

\* C5: with a host configured, the consecutive-failure counter equals the
\* number of failed polls since the last successful poll.
C5_CounterCountsFailedPolls ==
    host # "" => consecutive_errors = failed_polls

\* C6: a poll that fails with a timeout or a connection error and cannot serve
\* the cache raises UpdateFailed and leaves the latest data as exactly
\* {status: 'timeout'} or {status: 'not connected'}.
C6_TimeoutAndConnectionSentinels ==
    /\ (result.cause \in {"timeout", "client_error"}
          /\ (~ Truthy(last_successful_data) \/ consecutive_errors >= max_consecutive_errors))
          => result.kind = "raised"
    /\ (pc \in {"idle", "fetch_printer"} /\ result.kind = "raised" /\ result.cause = "timeout")
          => data = [status |-> "timeout"]
    /\ (pc \in {"idle", "fetch_printer"} /\ result.kind = "raised"
          /\ result.cause = "client_error")
          => data = [status |-> "not connected"]

C6_Witness ==
    /\ pc = "idle"
    /\ result.kind = "raised"
    /\ result.cause = "timeout"
    /\ Truthy(last_successful_data)
    /\ consecutive_errors = max_consecutive_errors

\* C7: a successful poll whose print job is in a completion state, or has
\* progress >= 0.999, or that obtained no print-job payload, never returns
\* status 'printing'.
C7_CompletedJobNeverPrinting ==
    (pc = "idle" /\ Succeeded
        /\ (\/ ~ Truthy(print_job_data)
            \/ Get(print_job_data, "state", "") \in CompletedStates
            \/ Get(print_job_data, "progress", 0) >= ProgressDone))
        => result.value["status"] # "printing"

\* C8: the last-known-good snapshot changes only in the step that ends a
\* successful poll, which stores the snapshot it returns; a poll that fails or
\* is abandoned at an await leaves it as it was.
C8_CacheWrittenOnlyBySuccess ==
    [][ last_successful_data' # last_successful_data
            => /\ pc # "idle"
               /\ pc' = "idle"
               /\ result'.kind = "returned"
               /\ result'.cause = "ok"
               /\ last_successful_data' = result'.value ]_vars

C8_Witness ==
    /\ pc = "idle"
    /\ result.kind = "cancelled"
    /\ Truthy(last_successful_data)
    /\ Truthy(printer_payload)
    /\ data # last_successful_data

\* C9: after a successful poll the consecutive-failure counter is 0 and the
\* last-known-good snapshot is the snapshot that poll returned, sampleTime
\* included.
C9_SuccessResetsAndStores ==
    Succeeded => (consecutive_errors = 0 /\ last_successful_data = result.value)

C9_Witness ==
    /\ pc = "idle"
    /\ Succeeded
    /\ result.time > max_consecutive_errors
    /\ result.value["sampleTime"] = result.time
    /\ last_successful_data["sampleTime"] = result.time

\* C10: the snapshot of a successful poll holds every required bed leaf and
\* every required leaf of heads[0].extruders[0]; a leaf the payload omitted
\* is 0 (numbers) or 'unknown' (id, type, GUID).
RECURSIVE HasPath(_, _)
HasPath(d, path) ==
    IF path = <<>> THEN TRUE
    ELSE Head(path) \in DOMAIN d /\ HasPath(d[Head(path)], Tail(path))

RECURSIVE At(_, _)
At(d, path) == IF path = <<>> THEN d ELSE At(d[Head(path)], Tail(path))

HasFirstExtruder(d) ==
    /\ Has(d, "heads")
    /\ Len(d["heads"]) >= 1
    /\ Has(d["heads"][1], "extruders")
    /\ Len(d["heads"][1]["extruders"]) >= 1

FirstExtruderOf(d) == IF HasFirstExtruder(d) THEN d["heads"][1]["extruders"][1] ELSE None

BedNumbers == {<<"bed", "temperature", "current">>, <<"bed", "temperature", "target">>}

BedTexts == {<<"bed", "type">>}

ExtruderNumbers ==
    {<<"hotend", "temperature", "current">>, <<"hotend", "temperature", "target">>,
     <<"hotend", "statistics", "material_extruded">>, <<"active_material", "length_remaining">>}

ExtruderTexts == {<<"hotend", "id">>, <<"active_material", "GUID">>}

C10_RequiredLeavesPresent ==
    (pc = "idle" /\ Succeeded) =>
        LET s  == result.value
            e  == FirstExtruderOf(s)
            pe == FirstExtruderOf(printer_payload)
        IN  /\ HasFirstExtruder(s)
            /\ \A p \in BedNumbers :
                  HasPath(s, p) /\ (HasPath(printer_payload, p) \/ At(s, p) = 0)
            /\ \A p \in BedTexts :
                  HasPath(s, p) /\ (HasPath(printer_payload, p) \/ At(s, p) = "unknown")
            /\ \A p \in ExtruderNumbers :
                  HasPath(e, p) /\ (HasPath(pe, p) \/ At(e, p) = 0)
            /\ \A p \in ExtruderTexts :
                  HasPath(e, p) /\ (HasPath(pe, p) \/ At(e, p) = "unknown")

C10_Witness ==
    /\ pc = "idle"
    /\ Succeeded
    /\ ~ Has(printer_payload, "bed")
    /\ HasFirstExtruder(printer_payload)
    /\ ~ Has(FirstExtruderOf(printer_payload), "hotend")
    /\ result.value["bed"]["type"] = "unknown"

\* --------------------------------------------------------- the cloud client
DEFAULT_SCAN_INTERVAL_CLOUD == 30

ExpiresInDefault == 3600

\* the least, the default and the greatest interval the options flow takes
ScanIntervalsCloud == {10, 30, 300}

Headers(t) == [Authorization |-> <<"Bearer", t>>]

\* lines 775-843
ApiRequest(resp) ==
    CASE resp.kind = "http_error"   -> Return(None)
      [] resp.kind = "client_error" -> Raise("ClientError")
      [] resp.kind = "timeout"      -> Raise("TimeoutError")
      [] resp.kind = "invalid_json" -> Return(None)
      [] resp.kind = "other_error"  -> Return(None)
      [] OTHER                      -> Return(resp.body)

\* what async_ensure_token_valid can do, and the token the session holds then
RefreshOutcomes ==
    {[raises |-> TRUE, token |-> None]}
    \cup {[raises |-> FALSE, token |-> tk] :
            tk \in {[access_token |-> "t1", expires_in |-> 60],
                    [access_token |-> "t1"],
                    [access_token |-> "t0", expires_in |-> 60],
                    [expires_in |-> 60]}}

Refreshed(ok, tk, exp, hd) == [ok |-> ok, token |-> tk, token_expiry |-> exp, headers |-> hd]

\* RefreshToken with the headers built ahead of line 909
RefreshTokenHeadersFirst(outcome, tk, exp, hd, t) ==
    IF outcome.raises
    THEN Refreshed(FALSE, tk, exp, hd)
    ELSE IF ~ Has(outcome.token, "access_token")
    THEN Refreshed(FALSE, tk, exp, Headers(""))
    ELSE Refreshed(TRUE, outcome.token["access_token"],
                   t + Get(outcome.token, "expires_in", ExpiresInDefault),
                   Headers(outcome.token["access_token"]))

\* lines 903-917: _refresh_token once the session has been awaited
RefreshToken(outcome, tk, exp, hd, t) ==
    IF outcome.raises
    THEN Refreshed(FALSE, tk, exp, hd)
    ELSE IF ~ Has(outcome.token, "access_token")
    THEN Refreshed(FALSE, tk, exp, hd)
    ELSE Refreshed(TRUE, outcome.token["access_token"],
                   t + Get(outcome.token, "expires_in", ExpiresInDefault),
                   Headers(outcome.token["access_token"]))

\* lines 693-742
CombineCluster(status, details) ==
    LET printers == Get(status, "printers", <<>>)
        cluster  == [status |-> "connected",
                     cluster_status |-> Get(status, "status", "unknown"),
                     printer_count |-> Len(printers),
                     cluster_name |-> Get(details, "name", "Unknown Cluster")]
        printer  == printers[1]
        first    == Put(Put(Put(cluster, "status", Get(printer, "status", "unknown")),
                            "state", Get(printer, "state", "unknown")),
                        "progress", Get(printer, "progress", 0))
        bedded   == IF Truthy(Get(printer, "bed", None))
                    THEN Put(first, "bed", printer["bed"]) ELSE first
        headed   == IF Truthy(Get(printer, "heads", <<>>))
                    THEN Put(bedded, "heads", printer["heads"]) ELSE bedded
    IN  IF Truthy(printers) THEN headed ELSE cluster

ClusterStatusBodies ==
    { [status |-> "active", printers |-> <<>>],
      [status |-> "active",
       printers |-> <<[status |-> "printing", state |-> "printing", progress |-> 450,
                       bed |-> [temperature |-> [current |-> 60, target |-> 60]],
                       heads |-> <<[extruders |-> <<FullExtruder("g1")>>]>>]>>],
      [printers |-> <<None>>],
      ListBody }

ClusterDetailsBodies == { [name |-> "Lab"], ListBody }

\* what is remembered of the latest call that the throttle let through;
\* http_errors names the requests that were answered with a status >= 400
HttpErrors(request, resp) == IF resp.kind = "http_error" THEN {request} ELSE {}

CloudCalls(expired, refreshes, requests, session_token, before) ==
    [expired |-> expired, refreshes |-> refreshes, requests |-> requests,
     session_token |-> session_token, before |-> before, http_errors |-> {}]

NoCloudCalls == CloudCalls(FALSE, 0, 0, None, None)

Stored == [token |-> token, token_expiry |-> token_expiry, headers |-> headers, data |-> data]

\* lines 613-646: the client as __init__.py lines 103-108 construct it
InitCloudClient ==
    /\ host = ""
    /\ data = None
    /\ last_successful_data = None
    /\ consecutive_errors = 0
    /\ material_names_cache = None
    /\ now = 0
    /\ pc = "idle"
    /\ print_job_data = None
    /\ result = NoResult
    /\ failed_polls = 0
    /\ printer_payload = None
    /\ fetch_log = NoCloudCalls
    /\ probe = NoProbe
    /\ token \in {"", "t0"}
    /\ token_expiry \in {NoExpiry, 15, 3600}
    /\ cluster_id \in {"", "c1"}
    /\ headers = Headers(token)
    /\ oauth_session \in BOOLEAN
    /\ cluster_status = None
    /\ last_call = NeverCalled
    /\ scan_interval \in ScanIntervalsCloud
    /\ passes = <<>>

\* the client of an entry whose setup is over
InitCloud ==
    /\ InitCloudClient
    /\ entry = Entry(cluster_id, "loaded", "")

\* line 648: the throttle lets a call through when none went through before
\* or the last one is at least the minimum time back
LetThrough(t) == last_call = NeverCalled \/ t - last_call >= DEFAULT_SCAN_INTERVAL_CLOUD

Configured == token # "" /\ cluster_id # ""

Expired(t) == token_expiry # NoExpiry /\ token_expiry < t

\* the coordinator calls async_update scan_interval after the call before
CloudCall(canStart, through) ==
    /\ pc = "idle"
    /\ canStart
    /\ now' = now + scan_interval
    /\ LetThrough(now') = through
    /\ last_call' = IF through THEN now' ELSE last_call

\* line 674
CloudRaise(cause, t) ==
    /\ pc' = "idle"
    /\ result' = [kind |-> "raised", cause |-> cause, value |-> None, time |-> t,
                  after |-> failed_polls]

\* line 648: the call comes too early; the body does not run and the call
\* gives None
CloudThrottled(canStart) ==
    /\ CloudCall(canStart, FALSE)
    /\ result' = [kind |-> "returned", cause |-> "throttled", value |-> None, time |-> now',
                  after |-> failed_polls]
    /\ fetch_log' = NoCloudCalls
    /\ UNCHANGED <<data, pc, token, token_expiry, cluster_id, headers, oauth_session,
                   cluster_status>>
    /\ UNCHANGED not_cloud

\* lines 653-661: _data is set, and the bare return gives None
CloudNotConfigured(canStart) ==
    /\ CloudCall(canStart, TRUE)
    /\ ~ Configured
    /\ data' = [status |-> "not configured"]
    /\ result' = [kind |-> "returned", cause |-> "not_configured", value |-> None,
                  time |-> now', after |-> failed_polls]
    /\ fetch_log' = NoCloudCalls
    /\ UNCHANGED <<pc, token, token_expiry, cluster_id, headers, oauth_session, cluster_status>>
    /\ UNCHANGED not_cloud

\* lines 663-676, 899-901: the token has expired and there is no session
CloudRefreshImpossible(canStart) ==
    /\ CloudCall(canStart, TRUE)
    /\ Configured
    /\ Expired(now')
    /\ ~ oauth_session
    /\ CloudRaise("refresh_failed", now')
    /\ fetch_log' = CloudCalls(TRUE, 1, 0, None, Stored)
    /\ UNCHANGED <<data, token, token_expiry, cluster_id, headers, oauth_session,
                   cluster_status>>
    /\ UNCHANGED not_cloud

\* lines 663-670, 903-905: the token has expired and the session is awaited
CloudStartRefresh(canStart) ==
    /\ CloudCall(canStart, TRUE)
    /\ Configured
    /\ Expired(now')
    /\ oauth_session
    /\ pc' = "refresh_token"
    /\ fetch_log' = CloudCalls(TRUE, 1, 0, None, Stored)
    /\ UNCHANGED <<data, result, token, token_expiry, cluster_id, headers, oauth_session,
                   cluster_status>>
    /\ UNCHANGED not_cloud

\* lines 663-683: the token has not expired and the cluster status is asked for
CloudStartRequests(canStart) ==
    /\ CloudCall(canStart, TRUE)
    /\ Configured
    /\ ~ Expired(now')
    /\ pc' = "cluster_status"
    /\ fetch_log' = CloudCalls(FALSE, 0, 1, None, Stored)
    /\ UNCHANGED <<data, result, token, token_expiry, cluster_id, headers, oauth_session,
                   cluster_status>>
    /\ UNCHANGED not_cloud

\* lines 671-674, 915-917: the refresh did not work out
CloudRefreshFailed ==
    /\ pc = "refresh_token"
    /\ \E outcome \in RefreshOutcomes :
          LET r == RefreshToken(outcome, token, token_expiry, headers, now)
          IN  /\ ~ r.ok
              /\ token' = r.token
              /\ token_expiry' = r.token_expiry
              /\ headers' = r.headers
              /\ fetch_log' = [fetch_log EXCEPT !.session_token = outcome.token]
    /\ CloudRaise("refresh_failed", now)
    /\ UNCHANGED <<data, now, cluster_id, oauth_session, cluster_status, last_call>>
    /\ UNCHANGED not_cloud

\* lines 675-683, 907-914: the refresh worked and the cluster status is asked for
CloudRefreshDone ==
    /\ pc = "refresh_token"
    /\ \E outcome \in RefreshOutcomes :
          LET r == RefreshToken(outcome, token, token_expiry, headers, now)
          IN  /\ r.ok
              /\ token' = r.token
              /\ token_expiry' = r.token_expiry
              /\ headers' = r.headers
              /\ fetch_log' = [fetch_log EXCEPT !.session_token = outcome.token,
                                                !.requests = 1]
    /\ pc' = "cluster_status"
    /\ UNCHANGED <<data, now, result, cluster_id, oauth_session, cluster_status, last_call>>
    /\ UNCHANGED not_cloud

\* lines 749-773: the request raised; the sentinel is stamped and returned
CloudRequestFailed(raised) ==
    LET sentinel == IF raised = "ClientError" THEN "not connected" ELSE "timeout"
        cause    == IF raised = "ClientError" THEN "client_error" ELSE "timeout"
    IN  /\ pc' = "idle"
        /\ data' = [status |-> sentinel, sampleTime |-> now]
        /\ result' = [kind |-> "returned", cause |-> cause, value |-> data', time |-> now,
                      after |-> failed_polls]

\* lines 681-689: the cluster status has come and the cluster is asked for
CloudStatusFetched ==
    /\ pc = "cluster_status"
    /\ \E resp \in Responses(ClusterStatusBodies) :
          IF ApiRequest(resp).raised # ""
          THEN /\ CloudRequestFailed(ApiRequest(resp).raised)
               /\ UNCHANGED <<cluster_status, fetch_log>>
          ELSE /\ cluster_status' = ApiRequest(resp).value
               /\ pc' = "cluster_details"
               /\ fetch_log' = [fetch_log EXCEPT !.requests = 2,
                                                 !.http_errors = HttpErrors("status", resp)]
               /\ UNCHANGED <<data, result>>
    /\ UNCHANGED <<now, token, token_expiry, cluster_id, headers, oauth_session, last_call>>
    /\ UNCHANGED not_cloud

\* lines 687-773: the cluster has come; the snapshot is built, stamped and returned
CloudDetailsFetched ==
    /\ pc = "cluster_details"
    /\ \E resp \in Responses(ClusterDetailsBodies) :
          IF ApiRequest(resp).raised # ""
          THEN CloudRequestFailed(ApiRequest(resp).raised) /\ UNCHANGED fetch_log
          ELSE /\ pc' = "idle"
               /\ fetch_log' = [fetch_log EXCEPT
                                   !.http_errors = @ \cup HttpErrors("details", resp)]
               /\ data' = IF IsDict(cluster_status) /\ IsDict(ApiRequest(resp).value)
                          THEN Put(CombineCluster(cluster_status, ApiRequest(resp).value),
                                   "sampleTime", now)
                          ELSE [status |-> "error", sampleTime |-> now]
               /\ result' = [kind  |-> "returned",
                             cause |-> IF IsDict(cluster_status)
                                          /\ IsDict(ApiRequest(resp).value)
                                       THEN "ok" ELSE "unknown",
                             value |-> data', time |-> now, after |-> failed_polls]
    /\ UNCHANGED <<now, token, token_expiry, cluster_id, headers, oauth_session,
                   cluster_status, last_call>>
    /\ UNCHANGED not_cloud

\* the host cancels the task at the await it is suspended at
CloudAbandon ==
    /\ pc # "idle"
    /\ pc' = "idle"
    /\ result' = [kind |-> "cancelled", cause |-> "cancelled", value |-> None, time |-> now,
                  after |-> failed_polls]
    /\ UNCHANGED <<data, now, token, token_expiry, cluster_id, headers, oauth_session,
                   cluster_status, last_call, fetch_log>>
    /\ UNCHANGED not_cloud

MaxCloudCalls == 4

MayCall == now < MaxCloudCalls * scan_interval

NextCloud ==
    \/ CloudThrottled(MayCall)
    \/ CloudNotConfigured(MayCall)
    \/ CloudRefreshImpossible(MayCall)
    \/ CloudStartRefresh(MayCall)
    \/ CloudStartRequests(MayCall)
    \/ CloudRefreshFailed
    \/ CloudRefreshDone
    \/ CloudStatusFetched
    \/ CloudDetailsFetched
    \/ CloudAbandon

SpecCloud == InitCloud /\ [][NextCloud]_vars

\* ------------------------------------- async_setup_entry, cloud branch
\* what GET /clusters can answer
ClusterListBodies == {[data |-> <<[id |-> "c1"], [id |-> "c2"]>>], [data |-> <<>>], ListBody}

\* api_client.py lines 844-847; a body that is not a mapping has no get
GetClusters(resp) ==
    IF ApiRequest(resp).raised # "" THEN ApiRequest(resp)
    ELSE IF ~ IsDict(ApiRequest(resp).value) THEN Raise("AttributeError")
    ELSE Return(Get(ApiRequest(resp).value, "data", <<>>))

\* api_client.py lines 850-852: what the body of the coroutine stores
SelectCluster(current, id) == id

\* __init__.py line 127: select_cluster is a coroutine function and the call
\* is not awaited, so the coroutine is made and dropped and its body never
\* runs
CallWithoutAwait(current, stored) == current

\* __init__.py line 112 has set the session before the cluster is looked up
InitSetup ==
    /\ InitCloudClient
    /\ oauth_session
    /\ entry = Entry(cluster_id, "setup", "")

not_setup ==
    <<host, data, last_successful_data, consecutive_errors, material_names_cache, now, pc,
      print_job_data, result, failed_polls, printer_payload, fetch_log, probe, token,
      token_expiry, headers, oauth_session, cluster_status, last_call, scan_interval,
      passes>>

Loaded == entry.state = "loaded"

\* __init__.py lines 116-117: the entry names its cluster
SetupKeepsCluster ==
    /\ entry.state = "setup"
    /\ entry.cluster_id # ""
    /\ entry' = [entry EXCEPT !.state = "loaded"]
    /\ UNCHANGED <<cluster_id, not_setup>>

\* __init__.py lines 121-123, 137-140: get_clusters raised, setup returns False
SetupClustersFailed ==
    /\ entry.state = "setup"
    /\ entry.cluster_id = ""
    /\ \E resp \in Responses(ClusterListBodies) : GetClusters(resp).raised # ""
    /\ entry' = [entry EXCEPT !.state = "failed"]
    /\ UNCHANGED <<cluster_id, not_setup>>

\* __init__.py lines 124, 135-136: there is no cluster to pick
SetupNoCluster ==
    /\ entry.state = "setup"
    /\ entry.cluster_id = ""
    /\ \E resp \in Responses(ClusterListBodies) :
          GetClusters(resp).raised = "" /\ ~ Truthy(GetClusters(resp).value)
    /\ entry' = [entry EXCEPT !.state = "loaded"]
    /\ UNCHANGED <<cluster_id, not_setup>>

\* __init__.py lines 124-134: the first cluster is picked
SetupFirstCluster ==
    /\ entry.state = "setup"
    /\ entry.cluster_id = ""
    /\ \E resp \in Responses(ClusterListBodies) :
          /\ GetClusters(resp).raised = ""
          /\ Truthy(GetClusters(resp).value)
          /\ LET id == GetClusters(resp).value[1]["id"]
             IN  /\ cluster_id' = CallWithoutAwait(cluster_id, SelectCluster(cluster_id, id))
                 /\ entry' = Entry(id, "loaded", id)
    /\ UNCHANGED not_setup

\* the coordinator of __init__.py lines 145-151 polls the client of a loaded
\* entry, the first time from line 186
NextSetup ==
    \/ SetupKeepsCluster
    \/ SetupClustersFailed
    \/ SetupNoCluster
    \/ SetupFirstCluster
    \/ CloudThrottled(MayCall /\ Loaded)
    \/ CloudNotConfigured(MayCall /\ Loaded)
    \/ CloudStartRefresh(MayCall /\ Loaded)
    \/ CloudStartRequests(MayCall /\ Loaded)
    \/ CloudRefreshFailed
    \/ CloudRefreshDone
    \/ CloudStatusFetched
    \/ CloudDetailsFetched
    \/ CloudAbandon

SpecSetup == InitSetup /\ [][NextSetup]_vars

\* ------------------------------------ async_update, called while it runs
\* Here now counts seconds, and a run of the local async_update is an entry
\* of passes: the await it is suspended at and since when.  The payloads name
\* no material, so that a run has two awaits.
Timeout == 10

TickSeconds == 5

MaxSeconds == 20

OverlapPrinterBodies ==
    { [status |-> "printing"], [status |-> "idle", bed |-> [temperature |-> [current |-> 60]]] }

OverlapPrintJobBodies == { [state |-> "printing", progress |-> 450] }

\* line 149: Throttle lets a call through when none went through before or
\* the last one is more than the minimum time back; it does not ask whether
\* the coroutine that call made has finished
ThrottleLetsThrough(t) ==
    last_call = NeverCalled \/ t - last_call > DEFAULT_SCAN_INTERVAL_LOCAL

Pass(p, t) == [pc |-> p, since |-> t]

Without(seq, i) == [j \in 1..(Len(seq) - 1) |-> IF j < i THEN seq[j] ELSE seq[j + 1]]

not_overlap ==
    <<host, material_names_cache, pc, print_job_data, failed_polls, printer_payload,
      fetch_log, probe, token, token_expiry, cluster_id, headers, oauth_session,
      cluster_status, scan_interval, entry>>

\* a run ends in a failure branch
PassFails(i, branch, cause) ==
    /\ data' = branch.data
    /\ consecutive_errors' = branch.errors
    /\ result' = [kind  |-> IF branch.raised THEN "raised" ELSE "returned",
                  cause |-> cause,
                  value |-> IF branch.raised THEN None ELSE branch.data,
                  time  |-> now, after |-> failed_polls]
    /\ passes' = Without(passes, i)
    /\ UNCHANGED last_successful_data

\* lines 149-161: a caller calls async_update, the throttle lets the call
\* through and the run awaits /printer
OverlapTrigger ==
    /\ ThrottleLetsThrough(now)
    /\ last_call' = now
    /\ passes' = Append(passes, Pass("fetch_printer", now))
    /\ UNCHANGED <<data, last_successful_data, consecutive_errors, now, result>>
    /\ UNCHANGED not_overlap

\* line 149: the call comes too early and gives None
OverlapThrottled ==
    /\ ~ ThrottleLetsThrough(now)
    /\ result' = [kind |-> "returned", cause |-> "throttled", value |-> None, time |-> now,
                  after |-> failed_polls]
    /\ UNCHANGED <<data, last_successful_data, consecutive_errors, now, last_call, passes>>
    /\ UNCHANGED not_overlap

\* _fetch_data line 531: no request waits longer than the timeout
OverlapTick ==
    /\ now < MaxSeconds
    /\ \A i \in 1..Len(passes) : now + TickSeconds - passes[i].since <= Timeout
    /\ now' = now + TickSeconds
    /\ UNCHANGED <<data, last_successful_data, consecutive_errors, result, last_call, passes>>
    /\ UNCHANGED not_overlap

\* lines 161-188, 431-504: /printer answers one of the runs
OverlapPrinterAnswered ==
    /\ \E i \in 1..Len(passes), resp \in Responses(OverlapPrinterBodies) :
          /\ passes[i].pc = "fetch_printer"
          /\ CASE FetchData(resp).raised = "ClientError" ->
                    PassFails(i, ExceptBranch(last_successful_data, consecutive_errors,
                                              "not connected", now), "client_error")
               [] FetchData(resp).raised = "TimeoutError" ->
                    PassFails(i, ExceptBranch(last_successful_data, consecutive_errors,
                                              "timeout", now), "timeout")
               [] FetchData(resp).raised = "" /\ ~ Truthy(FetchData(resp).value) ->
                    PassFails(i, EmptyPrinterData(last_successful_data, consecutive_errors,
                                                  now), "empty")
               [] OTHER ->
                    /\ data' = FetchData(resp).value
                    /\ passes' = [passes EXCEPT ![i] = Pass("fetch_print_job", now)]
                    /\ UNCHANGED <<last_successful_data, consecutive_errors, result>>
    /\ UNCHANGED <<now, last_call>>
    /\ UNCHANGED not_overlap

\* lines 190-522: /print_job answers one of the runs, which builds the
\* snapshot from the latest data, stores it and returns it
OverlapPrintJobAnswered ==
    /\ \E i \in 1..Len(passes), resp \in Responses(OverlapPrintJobBodies) :
          LET step == FirstExtruder(BuildSnapshot(data, PrintJobData(resp)),
                                    material_names_cache)
          IN  /\ passes[i].pc = "fetch_print_job"
              /\ step.pc = "done"
              /\ data' = Put(step.data, "sampleTime", now)
              /\ last_successful_data' = Copy(data')
              /\ consecutive_errors' = 0
              /\ result' = [kind |-> "returned", cause |-> "ok", value |-> data',
                            time |-> now, after |-> failed_polls]
              /\ passes' = Without(passes, i)
    /\ UNCHANGED <<now, last_call>>
    /\ UNCHANGED not_overlap

NextOverlap ==
    \/ OverlapTrigger
    \/ OverlapThrottled
    \/ OverlapTick
    \/ OverlapPrinterAnswered
    \/ OverlapPrintJobAnswered

SpecOverlap == InitFill /\ [][NextOverlap]_vars

\* ------------------------------------------------------- sensor.py
\* A number a sensor reads is [float, milli]: whether the JSON number came with
\* a fraction (a Python float) and its value in thousandths.
Whole(n) == [float |-> FALSE, milli |-> n * 1000]

Fraction(m) == [float |-> TRUE, milli |-> m]

DEFAULT_DECIMAL == 2

\* the least and the greatest number of decimals the options flow takes, the
\* default and one more
Decimals == {0, 1, DEFAULT_DECIMAL, 5}

Hotend1Keys ==
    {"hotend_1_temperature", "hotend_1_temperature_target", "hotend_1_id",
     "hotend_1_material_extruded", "hotend_1_material_remaining", "hotend_1_material_type"}

Hotend2Keys ==
    {"hotend_2_temperature", "hotend_2_temperature_target", "hotend_2_id",
     "hotend_2_material_extruded", "hotend_2_material_remaining", "hotend_2_material_type"}

SensorKeys ==
    {"status", "state", "progress", "bed_temperature", "bed_temperature_target", "bed_type",
     "print_job_time_total", "print_job_time_elapsed", "print_job_time_remaining",
     "cluster_status", "printer_count", "maintenance_required", "material_remaining"}
    \cup Hotend1Keys \cup Hotend2Keys

\* the keys whose value is a number when there is one
NumberKeys ==
    SensorKeys \ {"status", "state", "bed_type", "hotend_1_id", "hotend_2_id",
                  "hotend_1_material_type", "hotend_2_material_type", "cluster_status",
                  "maintenance_required"}

\* Available without lines 347-349: the status sensor is treated like the
\* other sensors
AvailableStatusLikeOthers(key, d, last_update_success) ==
    IF ~ last_update_success THEN FALSE
    ELSE IF ~ Truthy(d) THEN FALSE
    ELSE IF Has(d, "status") /\ d["status"] \in {"not connected", "timeout", "error"}
    THEN FALSE
    ELSE IF key \in Hotend2Keys
    THEN LET heads == Get(d, "heads", <<None>>)
         IN  IF ~ Truthy(heads) THEN FALSE
             ELSE Len(Get(heads[1], "extruders", <<>>)) >= 2
    ELSE TRUE

\* sensor.py, lines 338-390
Available(key, d, last_update_success) ==
    IF ~ last_update_success THEN FALSE
    ELSE IF key = "status" /\ Truthy(d) THEN TRUE
    ELSE IF ~ Truthy(d) THEN FALSE
    ELSE IF Has(d, "status") /\ d["status"] \in {"not connected", "timeout", "error"}
    THEN FALSE
    ELSE IF key \in Hotend2Keys
    THEN LET heads == Get(d, "heads", <<None>>)
         IN  IF ~ Truthy(heads) THEN FALSE
             ELSE Len(Get(heads[1], "extruders", <<>>)) >= 2
    ELSE TRUE

\* what native_value gives: a value, or None
Val(x) == [some |-> TRUE, v |-> x]

NoValue == [some |-> FALSE]

Read(d, k) == IF Has(d, k) THEN Val(d[k]) ELSE NoValue

ReadOr(d, k, default) == Val(Get(d, k, default))

\* str.replace("_", " ") on the states of the model
Replace(s) ==
    CASE s = "wait_cleanup" -> "wait cleanup"
      [] s = "pre_print"    -> "pre print"
      [] OTHER              -> s

\* Round without the digits: every number is cut to a whole one
RoundToWhole(n, decimal) ==
    LET q == n.milli \div 1000
        r == n.milli % 1000
        up == 2 * r > 1000 \/ (2 * r = 1000 /\ q % 2 = 1)
    IN  [float |-> TRUE, milli |-> (IF up THEN q + 1 ELSE q) * 1000]

\* round(value, decimal) of line 750, on thousandths: to the nearest multiple
\* of 10^-decimal, a tie to the even one
Round(n, decimal) ==
    LET u == CASE decimal = 0 -> 1000
               [] decimal = 1 -> 100
               [] decimal = 2 -> 10
               [] OTHER       -> 1
        q == n.milli \div u
        r == n.milli % u
        up == 2 * r > u \/ (2 * r = u /\ q % 2 = 1)
    IN  [float |-> TRUE, milli |-> (IF up THEN q + 1 ELSE q) * u]

\* lines 447-452 and the like: heads[0].extruders[i - 1], when the first head
\* has that many extruders
Extruder(d, i) ==
    LET heads == Get(d, "heads", <<None>>)
    IN  IF ~ Truthy(heads) THEN [found |-> FALSE]
        ELSE LET extruders == Get(heads[1], "extruders", <<None>>)
             IN  IF Len(extruders) >= i
                 THEN [found |-> TRUE, extruder |-> extruders[i]]
                 ELSE [found |-> FALSE]

\* lines 446-540, 586-714: the twelve hotend sensors
HotendValue(leaf, d, i) ==
    LET x  == Extruder(d, i)
        e  == IF x.found THEN x.extruder ELSE None
        h  == Get(e, "hotend", None)
        am == Get(e, "active_material", None)
    IN  CASE leaf = "temperature" ->
               IF x.found THEN Read(Get(h, "temperature", None), "current") ELSE NoValue
          [] leaf = "temperature_target" ->
               IF x.found THEN Read(Get(h, "temperature", None), "target") ELSE NoValue
          [] leaf = "id" -> IF x.found THEN Read(h, "id") ELSE NoValue
          [] leaf = "material_extruded" ->
               IF x.found
               THEN ReadOr(Get(h, "statistics", None), "material_extruded", Whole(0))
               ELSE Val(Whole(0))
          [] leaf = "material_remaining" ->
               IF x.found THEN ReadOr(am, "length_remaining", Whole(0)) ELSE Val(Whole(0))
          [] leaf = "material_type" ->
               IF x.found THEN ReadOr(am, "GUID", "unknown") ELSE Val("unknown")

\* lines 555-584: the share of a 750 m spool that is left, in percent, held
\* between 0 and 100
MaterialRemaining(d) ==
    LET x  == Extruder(d, 1)
        am == IF x.found THEN Get(x.extruder, "active_material", None) ELSE None
        pc100 == am["length_remaining"].milli \div 7500
    IN  IF x.found /\ Has(am, "length_remaining")
        THEN IF pc100 <= 0 THEN Val(Whole(0))
             ELSE IF pc100 >= 100000 THEN Val(Whole(100))
             ELSE Val(Fraction(pc100))
        ELSE Val(Whole(0))

\* TimeRemaining without the comparison of line 737
TimeRemainingUnguarded(d) ==
    LET total_time   == Get(d, "time_total", Whole(0))
        elapsed_time == Get(d, "time_elapsed", Whole(0))
    IN  Val([float |-> total_time.float \/ elapsed_time.float,
             milli |-> total_time.milli - elapsed_time.milli])

\* lines 732-745
TimeRemaining(d) ==
    LET total_time   == Get(d, "time_total", Whole(0))
        elapsed_time == Get(d, "time_elapsed", Whole(0))
    IN  IF total_time.milli > 0 /\ elapsed_time.milli <= total_time.milli
        THEN Val([float |-> total_time.float \/ elapsed_time.float,
                  milli |-> total_time.milli - elapsed_time.milli])
        ELSE Val(Whole(0))

\* lines 409-745: the value before line 748
RawValue(key, d) ==
    CASE key = "status" -> ReadOr(d, "status", "not connected")
      [] key = "state" ->
           IF Has(d, "state") /\ d["state"] # "" THEN Val(Replace(d["state"]))
           ELSE Read(d, "state")
      [] key = "progress" ->
           LET value == Get(d, "progress", Whole(0))
           IN  IF value.milli # 0 THEN Val([value EXCEPT !.milli = @ * 100]) ELSE Val(value)
      [] key = "bed_temperature" ->
           Read(Get(Get(d, "bed", None), "temperature", None), "current")
      [] key = "bed_temperature_target" ->
           Read(Get(Get(d, "bed", None), "temperature", None), "target")
      [] key = "bed_type" -> Read(Get(d, "bed", None), "type")
      [] key = "hotend_1_temperature" -> HotendValue("temperature", d, 1)
      [] key = "hotend_1_temperature_target" -> HotendValue("temperature_target", d, 1)
      [] key = "hotend_1_id" -> HotendValue("id", d, 1)
      [] key = "hotend_2_temperature" -> HotendValue("temperature", d, 2)
      [] key = "hotend_2_temperature_target" -> HotendValue("temperature_target", d, 2)
      [] key = "hotend_2_id" -> HotendValue("id", d, 2)
      [] key = "cluster_status" -> Read(d, "cluster_status")
      [] key = "printer_count" -> ReadOr(d, "printer_count", Whole(0))
      [] key = "maintenance_required" -> Val("No")
      [] key = "material_remaining" -> MaterialRemaining(d)
      [] key = "hotend_1_material_extruded" -> HotendValue("material_extruded", d, 1)
      [] key = "hotend_1_material_remaining" -> HotendValue("material_remaining", d, 1)
      [] key = "hotend_1_material_type" -> HotendValue("material_type", d, 1)
      [] key = "hotend_2_material_extruded" -> HotendValue("material_extruded", d, 2)
      [] key = "hotend_2_material_remaining" -> HotendValue("material_remaining", d, 2)
      [] key = "hotend_2_material_type" -> HotendValue("material_type", d, 2)
      [] key = "print_job_time_total" -> ReadOr(d, "time_total", Whole(0))
      [] key = "print_job_time_elapsed" -> ReadOr(d, "time_elapsed", Whole(0))
      [] key = "print_job_time_remaining" -> TimeRemaining(d)

\* NativeValue that reads using_cached_data: a cached snapshot gives no value
NativeValueHidesCached(key, d, decimal) ==
    IF ~ Truthy(d) \/ Has(d, "using_cached_data") THEN NoValue
    ELSE LET value == RawValue(key, d)
         IN  IF value.some /\ key \in NumberKeys /\ value.v.float
             THEN Val(Round(value.v, decimal))
             ELSE value

\* lines 392-755
NativeValue(key, d, decimal) ==
    IF ~ Truthy(d) THEN NoValue
    ELSE LET value == RawValue(key, d)
         IN  IF value.some /\ key \in NumberKeys /\ value.v.float
             THEN Val(Round(value.v, decimal))
             ELSE value

\* ------------------------------------------------- the sensors, read alone
SensorStatuses == {"printing", "idle", "not connected", "timeout", "error"}

SensorExtruder ==
    [hotend |-> [id |-> "AA 0.4",
                 temperature |-> [current |-> Fraction(210260), target |-> Whole(215)],
                 statistics |-> [material_extruded |-> Whole(120)]],
     active_material |-> [GUID |-> "g1", length_remaining |-> Whole(900)]]

SensorHeadLists ==
    {<<>>, <<None>>, <<[extruders |-> <<>>]>>, <<[extruders |-> <<None>>]>>,
     <<[extruders |-> <<SensorExtruder>>]>>,
     <<[extruders |-> <<SensorExtruder, None>>]>>,
     <<[extruders |-> <<SensorExtruder, SensorExtruder>>]>>,
     <<[extruders |-> <<[active_material |-> [length_remaining |-> Whole(900000)]]>>]>>,
     <<[extruders |-> <<[active_material |-> [length_remaining |-> Whole(-15)]]>>]>>}

SensorBeds ==
    {None, [type |-> "glass"],
     [temperature |-> [current |-> Fraction(60200), target |-> Whole(65)]],
     [temperature |-> [current |-> Fraction(60260), target |-> Fraction(64500)],
      type |-> "glass"]}

SensorJobs ==
    {[state |-> s, progress |-> p] :
        s \in {"printing", "wait_cleanup", ""},
        p \in {Whole(0), Whole(1), Fraction(450), Fraction(456), Fraction(999)}}
    \cup {[progress |-> Fraction(450)], [state |-> "pre_print"]}

SensorTimes ==
    Both(Opt("time_total", {Whole(-5), Whole(0), Whole(100), Whole(3600)}),
         Opt("time_elapsed", {Whole(-10), Whole(0), Whole(1800), Whole(3600), Whole(4000)}))

ClusterSnapshots ==
    {[status |-> "connected", cluster_status |-> "active", printer_count |-> Whole(0),
      cluster_name |-> "Lab"],
     [status |-> "printing", cluster_status |-> "active", printer_count |-> Whole(1),
      cluster_name |-> "Lab", state |-> "printing", progress |-> Fraction(450),
      heads |-> <<[extruders |-> <<SensorExtruder>>]>>]}

\* what the coordinator can hold: nothing, a sentinel, or a snapshot with or
\* without the keys the sensors read
SensorSnapshots ==
    {None}
    \cup (Both(Opt("status", SensorStatuses), Opt("heads", SensorHeadLists)) \ {None})
    \cup {Put(x, "status", s) : x \in Opt("bed", SensorBeds), s \in {"idle", "error"}}
    \cup {Put(j, "status", "printing") : j \in SensorJobs \cup SensorTimes}
    \cup ClusterSnapshots

ProbeSensor(key, d, decimal, success) ==
    [fn |-> "sensor", key |-> key, data |-> d, decimal |-> decimal,
     last_update_success |-> success,
     available |-> Available(key, d, success),
     native_value |-> NativeValue(key, d, decimal)]

not_sensor ==
    <<host, data, last_successful_data, consecutive_errors, material_names_cache, now, pc,
      print_job_data, result, failed_polls, printer_payload, fetch_log, token, token_expiry,
      cluster_id, headers, oauth_session, cluster_status, last_call, scan_interval, entry, passes>>

\* Home Assistant reads available and native_value of one sensor
ReadSensor ==
    /\ probe.fn = "none"
    /\ \E key \in SensorKeys, d \in SensorSnapshots, decimal \in Decimals, success \in BOOLEAN :
          probe' = ProbeSensor(key, d, decimal, success)
    /\ UNCHANGED not_sensor

\* the same sensor reads the same snapshot with using_cached_data added, as
\* line 174 adds it to a snapshot that is served from the cache
ReadSensorCached ==
    /\ probe.fn = "sensor"
    /\ Truthy(probe.data)
    /\ \E flag \in BOOLEAN :
          LET cached == Put(probe.data, "using_cached_data", flag)
          IN  probe' = [fn |-> "sensor_cached", key |-> probe.key, data |-> probe.data,
                        decimal |-> probe.decimal,
                        last_update_success |-> probe.last_update_success,
                        available |-> probe.available, native_value |-> probe.native_value,
                        cached |-> cached,
                        cached_available |->
                            Available(probe.key, cached, probe.last_update_success),
                        cached_native_value |->
                            NativeValue(probe.key, cached, probe.decimal)]
    /\ UNCHANGED not_sensor

NextSensor ==
    \/ ReadSensor
    \/ ReadSensorCached

SpecSensor == InitFill /\ [][NextSensor]_vars

\* ------------------------------------------------------------------------
Filled == probe.fn \in {"default_fill", "default_fill_twice"}

ExtrudersOf(d) ==
    IF Has(d, "heads") /\ Len(d["heads"]) >= 1 /\ Has(d["heads"][1], "extruders")
    THEN d["heads"][1]["extruders"] ELSE <<>>

HasLeaves(e) == \A p \in ExtruderNumbers \cup ExtruderTexts : HasPath(e, p)

\* C11 as stated: whatever the payload, the filled snapshot has a first and a
\* second extruder under heads[0], each with all six required leaves.
C11_BothExtrudersFilled ==
    Filled =>
        /\ Len(ExtrudersOf(probe.once)) >= 2
        /\ HasLeaves(ExtrudersOf(probe.once)[1])
        /\ HasLeaves(ExtrudersOf(probe.once)[2])

\* C11: after the default fill heads[0].extruders[0] exists with all six
\* required leaves, and so does heads[0].extruders[1] whenever the payload's
\* first head came with at least two extruders; the fill adds no second
\* extruder to a head that came with fewer, and drops none.
C11_PresentExtrudersFilled ==
    Filled =>
        LET before == ExtrudersOf(probe.input)
            after  == ExtrudersOf(probe.once)
        IN  /\ Len(after) = (IF Len(before) = 0 THEN 1 ELSE Len(before))
            /\ HasLeaves(after[1])
            /\ Len(before) >= 2 => HasLeaves(after[2])

C11_Witness ==
    /\ Filled
    /\ Len(ExtrudersOf(probe.input)) = 2
    /\ ExtrudersOf(probe.input)[2] = None
    /\ ExtrudersOf(probe.once)[2]["hotend"]["id"] = "unknown"
    /\ ExtrudersOf(probe.once)[2]["active_material"]["length_remaining"] = 0

\* C12: the default fill is idempotent: run on its own result it changes
\* nothing.
C12_DefaultFillIdempotent ==
    probe.fn = "default_fill_twice" => probe.twice = probe.once

C12_Witness ==
    /\ probe.fn = "default_fill_twice"
    /\ probe.once # probe.input
    /\ ~ Has(probe.input, "heads")
    /\ probe.twice = probe.once

\* ------------------------------------------------------------------------
Ended == pc = "idle" /\ result.kind \in {"returned", "raised"} /\ result.time = now

Endpoints == {"printer", "print_job", "material_1", "material_2"}

Malformed(e) == fetch_log[e].kind = "invalid_json"

\* C13 as stated: no poll in which some endpoint answered with invalid JSON
\* ends in UpdateFailed.
C13_MalformedBodyNeverFails ==
    (Ended /\ \E e \in Endpoints : Malformed(e)) => result.kind # "raised"

\* C13: _fetch_data answers invalid JSON with an empty result and does not
\* raise.  Coming from /print_job or from the materials endpoint, invalid JSON
\* never fails a poll whose /printer payload is a mapping.  Coming from
\* /printer it is an empty primary payload: the poll is a failed poll that
\* serves the cached copy while there is one and the counter is below the
\* maximum, and raises UpdateFailed otherwise.
C13_MalformedBodyIsEmptyResult ==
    /\ \A e \in Endpoints :
          Malformed(e) => fetch_log[e].raised = "" /\ fetch_log[e].empty
    /\ (Ended /\ IsDict(printer_payload) /\ Truthy(printer_payload)
              /\ \E e \in Endpoints \ {"printer"} : Malformed(e))
          => Succeeded
    /\ (Ended /\ Malformed("printer"))
          => /\ Failed
             /\ result.cause = "empty"
             /\ IF Truthy(last_successful_data) /\ consecutive_errors < max_consecutive_errors
                THEN ServedCache
                ELSE result.kind = "raised"

C13_Witness ==
    /\ Ended
    /\ Malformed("print_job")
    /\ Malformed("material_1")
    /\ Succeeded

\* C14: a poll that got a /printer mapping and whose /print_job fetch raised,
\* answered with an HTTP error or invalid JSON, or returned nothing, succeeds:
\* its snapshot is stamped with the time of this poll and carries no cache
\* flag, and the failure counter is zero afterwards.
C14_PrintJobFailureIsHarmless ==
    (/\ Ended
     /\ IsDict(printer_payload) /\ Truthy(printer_payload)
     /\ fetch_log.print_job.kind # "none"
     /\ fetch_log.print_job.kind # "ok" \/ fetch_log.print_job.empty)
    => /\ Succeeded
       /\ result.value["sampleTime"] = now
       /\ ~ Has(result.value, "using_cached_data")
       /\ consecutive_errors = 0
       /\ failed_polls = 0

C14_Witness ==
    /\ Ended
    /\ fetch_log.print_job.kind = "timeout"
    /\ Truthy(last_successful_data)
    /\ result.time > 1
    /\ Succeeded

\* C17: the status correction changes a status only from 'printing' to
\* 'idle'.  With a raw status 'printing' and a print-job payload whose state,
\* compared in lower case as line 209 does, is not a completion state and
\* whose progress is below 0.999, the status stays 'printing'; any other raw
\* status is kept whatever the job's state and progress.  The returned status
\* is the corrected one for every job payload without a 'status' key of its
\* own.
C17_OnlyPrintingBecomesIdle ==
    probe.fn = "status_correction" =>
        LET raw == probe.printer_data
            job == probe.job
            st  == probe.corrected["status"]
        IN  /\ (/\ Has(raw, "status") /\ raw["status"] = "printing"
                /\ Truthy(job)
                /\ Lower(Get(job, "state", "")) \notin CompletedStates
                /\ Get(job, "progress", 0) < ProgressDone) => st = "printing"
            /\ (Has(raw, "status") /\ raw["status"] # "printing") => st = raw["status"]
            /\ (Has(raw, "status") /\ st # raw["status"])
                  => raw["status"] = "printing" /\ st = "idle"
            /\ ~ Has(job, "status") => probe.merged["status"] = st

C17_Witness ==
    /\ probe.fn = "status_correction"
    /\ probe.printer_data = [status |-> "printing"]
    /\ probe.job = [state |-> "paused", progress |-> 998]
    /\ probe.merged["status"] = "printing"

\* ------------------------------------------------------------------------
\* C18: a name that is in the material cache stays there unchanged, and a
\* call for its identifier returns that name and fetches nothing.
C18_ResolvedNameIsKept ==
    [][/\ \A g \in DOMAIN material_names_cache :
             /\ g \in DOMAIN material_names_cache'
             /\ material_names_cache'[g] = material_names_cache[g]
       /\ (probe'.fn = "get_material_name"
              /\ probe'.material_guid \in DOMAIN material_names_cache)
            => /\ probe'.name = material_names_cache[probe'.material_guid]
               /\ ~ probe'.fetched]_vars

C18_Witness ==
    /\ probe.fn = "get_material_name"
    /\ probe.material_guid = "g1"
    /\ probe.before = [g1 |-> "PLA"]
    /\ probe.resp.kind = "ok"
    /\ Truthy(probe.resp.body)
    /\ ExtractName(probe.resp.body).found
    /\ ExtractName(probe.resp.body).name = "Generic PLA"
    /\ probe.name = "PLA"
    /\ material_names_cache = [g1 |-> "PLA"]

\* the document has no name text, not both a brand and a material, and, when
\* it is not well-formed XML, no <name>...</name> in its text
Nameless(doc) ==
    IF doc.well_formed
    THEN (~ doc.has_name \/ doc.name = "") /\ (doc.brand = "" \/ doc.material = "")
    ELSE ~ doc.has_name

Unresolvable(resp) ==
    \/ resp.kind # "ok"
    \/ ~ Truthy(resp.body)
    \/ resp.body.json
    \/ Nameless(resp.body)

C15_NeverReturnsNothing ==
    (pc = "idle" /\ result.kind = "returned")
        => Truthy(result.value) /\ Has(result.value, "status")

\* C16: a cloud poll that finds the token or the cluster id missing does not
\* raise, and what it hands to the coordinator is a snapshot whose status is
\* 'not configured'.
C16_NotConfiguredIsReported ==
    (pc = "idle" /\ result.cause = "not_configured")
        => /\ result.kind = "returned"
           /\ Has(result.value, "status")
           /\ result.value["status"] = "not configured"

Polled == fetch_log.refreshes + fetch_log.requests > 0

RefreshWorked == Has(fetch_log.session_token, "access_token")

\* C20: a cloud poll makes one refresh attempt if it finds the token expired
\* and none otherwise.  When the refresh fails the poll raises UpdateFailed
\* with no API request made and with the token, the headers and the latest
\* data as they were before the poll.  An API request is made after an
\* expired token only when the refresh worked, and then with the session's
\* access token stored, the headers built from it, and the expiry set to the
\* time of the refresh plus the token's expires_in (an hour if it has none).
C20_ExpiredTokenRefreshedOnce ==
    /\ Polled => fetch_log.refreshes = (IF fetch_log.expired THEN 1 ELSE 0)
    /\ (/\ Polled /\ fetch_log.expired
        /\ pc = "idle" /\ result.kind # "cancelled"
        /\ ~ RefreshWorked)
       => /\ result.kind = "raised"
          /\ result.cause = "refresh_failed"
          /\ fetch_log.requests = 0
          /\ token = fetch_log.before.token
          /\ headers = fetch_log.before.headers
          /\ data = fetch_log.before.data
    /\ (Polled /\ fetch_log.expired /\ fetch_log.requests >= 1) => RefreshWorked
    /\ (Polled /\ fetch_log.expired /\ RefreshWorked)
       => /\ fetch_log.requests >= 1
          /\ token = fetch_log.session_token["access_token"]
          /\ headers = Headers(token)
          /\ token_expiry = now + Get(fetch_log.session_token, "expires_in", ExpiresInDefault)

C20_Witness ==
    /\ pc = "idle"
    /\ fetch_log.expired
    /\ fetch_log.session_token = [expires_in |-> 60]
    /\ result.kind = "raised"
    /\ token = "t0"
    /\ Has(data, "cluster_name")

\* ------------------------------------------------------------------------
\* the value a leaf has, or "absent"-tagged when the path is not there
Leaf(d, path) == IF HasPath(d, path) THEN [present |-> TRUE, value |-> At(d, path)]
                 ELSE [present |-> FALSE]

KeepsLeaves(before, after, paths) ==
    \A p \in paths : HasPath(before, p) => Leaf(after, p) = Leaf(before, p)

\* C30: the default fill overwrites and removes nothing: every bed leaf and
\* every extruder leaf the merged snapshot holds before the fill has the same
\* value after it, the status is untouched, every extruder and every further
\* head is still there, and a leaf that is new after the fill has the
\* default value (0 or 'unknown').
C30_DefaultFillKeepsLeaves ==
    Filled =>
        LET before == probe.input
            after  == probe.once
            eb     == ExtrudersOf(before)
            ea     == ExtrudersOf(after)
        IN  /\ KeepsLeaves(before, after, BedNumbers \cup BedTexts \cup {<<"status">>})
            /\ Len(ea) >= Len(eb)
            /\ \A i \in 1..Len(eb) :
                  KeepsLeaves(eb[i], ea[i], ExtruderNumbers \cup ExtruderTexts)
            /\ Has(before, "heads") =>
                  /\ Len(after["heads"]) >= Len(before["heads"])
                  /\ \A h \in 2..Len(before["heads"]) : after["heads"][h] = before["heads"][h]
            /\ \A p \in BedNumbers : HasPath(before, p) \/ At(after, p) = 0
            /\ \A p \in BedTexts : HasPath(before, p) \/ At(after, p) = "unknown"

C30_Witness ==
    /\ Filled
    /\ HasPath(probe.input, <<"bed", "type">>)
    /\ ~ HasPath(probe.input, <<"bed", "temperature">>)
    /\ Len(ExtrudersOf(probe.input)) = 2
    /\ HasPath(ExtrudersOf(probe.input)[1], <<"hotend", "temperature", "current">>)
    /\ ~ HasPath(ExtrudersOf(probe.input)[2], <<"hotend">>)
    /\ probe.once["bed"]["type"] = "glass"
    /\ probe.once["bed"]["temperature"]["current"] = 0
    /\ ExtrudersOf(probe.once)[1]["hotend"]["temperature"]["current"] = 210
    /\ ExtrudersOf(probe.once)[2]["hotend"]["id"] = "unknown"

C27_SuccessStartsAfresh ==
    /\ (pc = "idle" /\ Succeeded) =>
          /\ ~ Has(result.value, "using_cached_data")
          /\ consecutive_errors = 0
          /\ KeepsLeaves(printer_payload, result.value, BedNumbers \cup BedTexts)
          /\ \A p \in BedNumbers : HasPath(printer_payload, p) \/ At(result.value, p) = 0
          /\ \A p \in BedTexts :
                HasPath(printer_payload, p) \/ At(result.value, p) = "unknown"
    /\ (Failed /\ result.after = 0 /\ Truthy(last_successful_data)) =>
          (ServedCache /\ consecutive_errors = 1)

C27_Witness ==
    /\ pc = "idle"
    /\ Succeeded
    /\ result.after >= max_consecutive_errors
    /\ Has(printer_payload, "bed")
    /\ ~ HasPath(printer_payload, <<"bed", "type">>)
    /\ result.value["bed"]["type"] = "unknown"

\* ------------------------------------------------------------------------
LiveStatuses == {"connected", "printing"}

\* C28: a cloud poll that got a status >= 400 for /clusters/{id}/status or
\* for /clusters/{id} and returns a snapshot does not report a live status:
\* the snapshot's status is neither 'connected' nor a printer's status.
C28_HttpErrorIsNotLive ==
    (pc = "idle" /\ result.kind = "returned" /\ fetch_log.requests = 2
        /\ fetch_log.http_errors # {})
        => (Has(result.value, "status") /\ result.value["status"] \notin LiveStatuses)

\* ------------------------------------------------------------------------
SensorRead == probe.fn \in {"sensor", "sensor_cached"}

Rounded(r, x, decimal) ==
    LET u == IF decimal >= 3 THEN 1 ELSE IF decimal = 2 THEN 10
             ELSE IF decimal = 1 THEN 100 ELSE 1000
    IN  /\ r % u = 0
        /\ 2 * (r - x) <= u
        /\ 2 * (x - r) <= u

BedCurrent == <<"bed", "temperature", "current">>

ProgressIsPercent ==
    (SensorRead /\ probe.key = "progress" /\ Has(probe.data, "progress")) =>
        /\ probe.native_value.some
        /\ Rounded(probe.native_value.v.milli, probe.data["progress"].milli * 100,
                   probe.decimal)

StatusIsUnchanged ==
    (SensorRead /\ probe.key = "status" /\ Has(probe.data, "status")) =>
        probe.native_value = Val(probe.data["status"])

\* C23 as stated: the progress sensor is the progress fraction times 100,
\* rounded to the configured decimals; the status sensor is the snapshot's
\* status and the bed-temperature sensor is bed.temperature.current, both
\* unchanged.
C23_BedTemperatureUnchanged ==
    /\ ProgressIsPercent
    /\ StatusIsUnchanged
    /\ (SensorRead /\ probe.key = "bed_temperature" /\ HasPath(probe.data, BedCurrent)) =>
          /\ probe.native_value.some
          /\ probe.native_value.v.milli = At(probe.data, BedCurrent).milli

\* C23: the progress sensor is the progress fraction times 100, rounded to
\* the configured decimals; the status sensor is the snapshot's status
\* unchanged; the bed-temperature sensor is bed.temperature.current rounded
\* to the configured decimals, which leaves a whole number and a number with
\* no more decimals than configured unchanged.
C23_BedTemperatureRounded ==
    /\ ProgressIsPercent
    /\ StatusIsUnchanged
    /\ (SensorRead /\ probe.key = "bed_temperature" /\ HasPath(probe.data, BedCurrent)) =>
          /\ probe.native_value.some
          /\ Rounded(probe.native_value.v.milli, At(probe.data, BedCurrent).milli,
                     probe.decimal)
          /\ Rounded(At(probe.data, BedCurrent).milli, At(probe.data, BedCurrent).milli,
                     probe.decimal)
                => probe.native_value.v.milli = At(probe.data, BedCurrent).milli

C23_Witness ==
    /\ probe.fn = "sensor"
    /\ probe.key = "bed_temperature"
    /\ probe.decimal = 1
    /\ HasPath(probe.data, BedCurrent)
    /\ At(probe.data, BedCurrent) = Fraction(60260)
    /\ probe.native_value = Val(Fraction(60300))

\* ------------------------------------------------------------------------
\* C24: a sensor that reads a snapshot and the same snapshot with
\* using_cached_data added (TRUE or FALSE) is available for both or for
\* neither, and has the same value for both, whatever its key.
C24_CachedFlagIsNotRead ==
    probe.fn = "sensor_cached" =>
        /\ probe.cached_available = probe.available
        /\ probe.cached_native_value = probe.native_value

C24_Witness ==
    /\ probe.fn = "sensor_cached"
    /\ probe.key = "hotend_2_temperature"
    /\ probe.cached["using_cached_data"] = TRUE
    /\ ~ Has(probe.data, "using_cached_data")
    /\ probe.cached_available
    /\ probe.cached_native_value = Val(Fraction(210260))

\* ------------------------------------------------------------------------
Sentinels == {"not connected", "timeout", "error"}

\* C29: after a successful update that left data, the status sensor is
\* available; any other sensor is unavailable exactly when the snapshot's
\* status is 'not connected', 'timeout' or 'error', or when it is one of the
\* six hotend-2 sensors and the first head has fewer than two extruders.
C29_AvailabilityRule ==
    (SensorRead /\ probe.last_update_success /\ Truthy(probe.data)) =>
        /\ probe.key = "status" => probe.available
        /\ probe.key # "status" =>
              (~ probe.available <=>
                  \/ (Has(probe.data, "status") /\ probe.data["status"] \in Sentinels)
                  \/ (probe.key \in Hotend2Keys /\ Len(ExtrudersOf(probe.data)) < 2))

C29_Witness ==
    /\ probe.fn = "sensor"
    /\ probe.last_update_success
    /\ probe.key = "status"
    /\ probe.data = [status |-> "error"]
    /\ probe.available
    /\ probe.native_value = Val("error")

\* ------------------------------------------------------------------------
\* C25: when async_setup_entry has picked the first cluster of the list for
\* an entry that named none, the entry's cluster id and the client's cluster
\* id are both that cluster's id, and no poll of the client reports missing
\* configuration for want of a cluster.
C25_FirstClusterIsSelected ==
    (Loaded /\ entry.selected # "") =>
        /\ entry.cluster_id = entry.selected
        /\ cluster_id = entry.selected
        /\ token # "" => result.cause # "not_configured"

\* ------------------------------------------------------------------------
\* C21: at any time at most one run of async_update is in flight for the
\* client; a call that comes while a run is in flight starts no second one.
C21_SingleFlight == Len(passes) <= 1

====
